---- MODULE Spec2Model ----
(***************************************************************************)
(* Day 20 of AdventOfCode2020: jigsaw-tile assembly (grid.rs) and pattern  *)
(* scrubbing (tile.rs).  A Tile is a record [id, size, data] whose data is *)
(* the row-major cell sequence; the source indexes from 0, sequences here  *)
(* from 1, so cell (y, x) of the source is data[y * size + x + 1].         *)
(***************************************************************************)
EXTENDS Integers, Sequences, FiniteSets

VARIABLES
    input,          \* the scenario the run was started with (never changes)
    pc,             \* position of the run in the program; "aborted" after a panic
    parsed_tiles,   \* Grid::parse / build_grid: the free pool
    tiles,          \* build_grid: the placed sequence; Grid.tiles afterwards
    size,           \* Grid.size
    tile_size,      \* Grid.tile_size
    corner,         \* index (from 0) find_corner returned
    outcome,        \* of Grid::parse: "none" yet, "Ok", the error, "panic"
    tile,           \* the Tile a tile-level call works on (the merged image)
    before,         \* that tile when the call started
    ret,            \* value the last call returned; after an iteration of
                    \* remove_monsters, the windows where has_monster held
    step,           \* loop counter i of remove_monsters
    scanned         \* what the last call went through: the windows <<y, x>>
                    \* tested in the last orientation scanned, the constraints
                    \* find_corner called orient with

vars == <<input, pc, parsed_tiles, tiles, size, tile_size, corner, outcome,
          tile, before, ret, step, scanned>>

(***************************************************************************)
(* tile.rs: constants                                                      *)
(***************************************************************************)

\* lazy_static MONSTER_PATTERN: the three text lines, one character each
MONSTER_LINES ==
    << << " "," "," "," "," "," "," "," "," "," "," "," "," "," "," "," "," "," ","#"," " >>,
       << "#"," "," "," "," ","#","#"," "," "," "," ","#","#"," "," "," "," ","#","#","#" >>,
       << " ","#"," "," ","#"," "," ","#"," "," ","#"," "," ","#"," "," ","#"," "," "," " >> >>

MONSTER_PATTERN ==
    [r \in 1..Len(MONSTER_LINES) |->
        [c \in 1..Len(MONSTER_LINES[r]) |-> MONSTER_LINES[r][c] = "#"]]

MONSTER_HEIGHT == Len(MONSTER_PATTERN)

MONSTER_WIDTH == Len(MONSTER_PATTERN[1])

\* Option<T>: None is the empty sequence, Some(v) the one-element sequence
None == << >>

Some(v) == << v >>

IsSome(o) == Len(o) = 1

Unwrap(o) == o[1]

(***************************************************************************)
(* utils.rs                                                                *)
(***************************************************************************)

RECURSIVE sqrt_from(_, _)
sqrt_from(count, s) ==
    IF s * s = count THEN Some(s)
    ELSE IF s * s > count THEN None
    ELSE sqrt_from(count, s + 1)

\* the root rounded down where there is no exact one
sqrt_floor(count) ==
    Some(CHOOSE r \in 0..count : r * r <= count /\ (r + 1) * (r + 1) > count)

\* the search begun at 1 instead of 0
sqrt_exact_from_one(count) == sqrt_from(count, 1)

sqrt_exact(count) == sqrt_from(count, 0)

(***************************************************************************)
(* tile.rs: Tile                                                           *)
(***************************************************************************)

MkTile(id, sz, data) == [id |-> id, size |-> sz, data |-> data]

\* Tile::from_data: Ok is Some(tile), Err("Tile is not square") is None
from_data(data, id) ==
    LET sz == sqrt_exact(Len(data))
    IN  IF IsSome(sz) THEN Some(MkTile(id, Unwrap(sz), data)) ELSE None

\* b as u32
Bit(b) == IF b THEN 1 ELSE 0

\* A u32 is the record [hi, lo] of its two 16-bit halves
U32(hi, lo) == [hi |-> hi, lo |-> lo]

U32_ZERO == U32(0, 0)

\* the fold step on a 31-bit accumulator
Shl1AddNarrow(acc, b) ==
    U32((acc.hi % 16384) * 2 + (acc.lo \div 32768), (acc.lo % 32768) * 2 + Bit(b))

\* (acc << 1) + b on u32: the shift drops bit 31, the sum never carries
Shl1Add(acc, b) ==
    U32((acc.hi % 32768) * 2 + (acc.lo \div 32768), (acc.lo % 32768) * 2 + Bit(b))

RECURSIVE FoldBits(_, _, _)
FoldBits(bits, i, acc) ==
    IF i > Len(bits) THEN acc
    ELSE FoldBits(bits, i + 1, Shl1Add(acc, bits[i]))

\* a function over 1..n as the concrete sequence (Vec) it denotes
Vec(f) == SubSeq(f, 1, Len(f))

Reverse(s) == Vec([i \in 1..Len(s) |-> s[Len(s) + 1 - i]])

\* data[row_start .. row_start + size]
RowCells(t, edge) ==
    LET row_start == IF edge = "Top" THEN 0 ELSE Len(t.data) - t.size
    IN  Vec([k \in 1..t.size |-> t.data[row_start + k]])

\* data[col..].iter().step_by(size)
ColCells(t, edge) ==
    LET col == IF edge = "Left" THEN 0 ELSE t.size - 1
        n   == (Len(t.data) - col + t.size - 1) \div t.size
    IN  Vec([k \in 1..n |-> t.data[col + (k - 1) * t.size + 1]])

row_fwd(t, edge) == FoldBits(RowCells(t, edge), 1, U32_ZERO)

row_rev(t, edge) == FoldBits(Reverse(RowCells(t, edge)), 1, U32_ZERO)

col_fwd(t, edge) == FoldBits(ColCells(t, edge), 1, U32_ZERO)

col_rev(t, edge) == FoldBits(Reverse(ColCells(t, edge)), 1, U32_ZERO)

right_edge(t) == col_fwd(t, "Right")

bottom_edge(t) == row_fwd(t, "Bottom")

\* the edges array of connect
ConnectEdges(t) ==
    << row_fwd(t, "Top"), row_fwd(t, "Bottom"),
       col_fwd(t, "Left"), col_fwd(t, "Right"),
       row_rev(t, "Top"), row_rev(t, "Bottom"),
       col_rev(t, "Left"), col_rev(t, "Right") >>

InSeq(v, s) == \E i \in 1..Len(s) : s[i] = v

\* connect that looks up only the forward readings of self
connect_forward(a, b) ==
    LET edges == SubSeq(ConnectEdges(a), 1, 4)
        other_edges == ConnectEdges(b)
    IN  SelectSeq(edges, LAMBDA e : InSeq(e, other_edges))

connect(a, b) ==
    LET edges == ConnectEdges(a)
        other_edges == ConnectEdges(b)
    IN  SelectSeq(edges, LAMBDA e : InSeq(e, other_edges))

\* every row moved one place round instead of reversed
shift_rows(t) ==
    LET s == t.size
    IN  [t EXCEPT !.data =
            Vec([i \in 1..Len(t.data) |->
                t.data[((i - 1) \div s) * s + ((((i - 1) % s) + 1) % s) + 1]])]

\* data.chunks_mut(size).for_each(|r| r.reverse()); the last chunk may be short
flip_horizontal(t) ==
    LET n == Len(t.data)
        s == t.size
    IN  [t EXCEPT !.data =
            Vec([i \in 1..n |->
                LET y == (i - 1) \div s
                    x == (i - 1) % s
                    w == IF (y + 1) * s <= n THEN s ELSE n - y * s
                IN  t.data[y * s + (w - 1 - x) + 1]])]

\* the quarter turn the other way round
rotate_left(t) ==
    LET s == t.size
    IN  [t EXCEPT !.data =
            Vec([i \in 1..Len(t.data) |->
                LET r == (i - 1) \div s
                    c == (i - 1) % s
                IN  t.data[c * s + (s - 1 - r) + 1]])]

\* src.chunks(size) has more than size rows: size - y - 1 goes below zero
\* and the call aborts, as it does on chunks(0)
RotatePanics(t) == t.size = 0 \/ Len(t.data) > t.size * t.size

\* row y of the source is written down column size - y - 1; where the zip
\* runs out of source cells (data shorter than size * size) the cell keeps
\* its value
rotate_right(t) ==
    LET s == t.size
    IN  [t EXCEPT !.data =
            Vec([i \in 1..Len(t.data) |->
                LET r == (i - 1) \div s
                    c == (i - 1) % s
                    k == (s - 1 - c) * s + r + 1
                IN  IF k <= Len(t.data) THEN t.data[k] ELSE t.data[i]])]

(***************************************************************************)
(* tile.rs: EdgeConstraints                                                *)
(***************************************************************************)

EdgeConstraints_default == [left |-> None, right |-> None, top |-> None, bottom |-> None]

EdgeConstraints_right(value) == [EdgeConstraints_default EXCEPT !.right = Some(value)]

and_left(c, value) == [c EXCEPT !.left = Some(value)]

and_top(c, value) == [c EXCEPT !.top = Some(value)]

and_bottom(c, value) == [c EXCEPT !.bottom = Some(value)]

\* constraints.f.map_or(true, |v| v == edge)
MapOrTrue(o, edge) == IF IsSome(o) THEN Unwrap(o) = edge ELSE TRUE

\* the conjunction without its test of the top edge
OrientedNoTop(t, c) ==
    /\ MapOrTrue(c.left, col_fwd(t, "Left"))
    /\ MapOrTrue(c.right, col_fwd(t, "Right"))
    /\ MapOrTrue(c.bottom, row_fwd(t, "Bottom"))

\* the conjunction orient tests in one orientation
Oriented(t, c) ==
    /\ MapOrTrue(c.left, col_fwd(t, "Left"))
    /\ MapOrTrue(c.right, col_fwd(t, "Right"))
    /\ MapOrTrue(c.top, row_fwd(t, "Top"))
    /\ MapOrTrue(c.bottom, row_fwd(t, "Bottom"))

\* the rotate with the flip one iteration early
NextOrientationEarlyFlip(t, i) ==
    IF i = 2 THEN flip_horizontal(rotate_right(t)) ELSE rotate_right(t)

\* the rotate (and, after the fourth, flip) that ends iteration i
NextOrientation(t, i) ==
    IF i = 3 THEN flip_horizontal(rotate_right(t)) ELSE rotate_right(t)

\* Tile::orient from iteration i on. The call aborts (panic) where col_fwd
\* is asked for a column of a tile of size 0 (step_by(0), size - 1), and
\* where rotate_right aborts after a test that failed
RECURSIVE OrientLoop(_, _, _)
OrientLoop(t, c, i) ==
    IF i = 8 THEN [ok |-> FALSE, panic |-> FALSE, tile |-> t]
    ELSE IF t.size = 0 /\ (IsSome(c.left) \/ IsSome(c.right))
    THEN [ok |-> FALSE, panic |-> TRUE, tile |-> t]
    ELSE IF Oriented(t, c) THEN [ok |-> TRUE, panic |-> FALSE, tile |-> t]
    ELSE IF RotatePanics(t) THEN [ok |-> FALSE, panic |-> TRUE, tile |-> t]
    ELSE OrientLoop(NextOrientation(t, i), c, i + 1)

\* orient that turns the tile before its first test
orient_turn_first(t, c) == OrientLoop(rotate_right(t), c, 0)

\* Tile::orient: the value returned and the tile as the call leaves it, or
\* panic for the call that aborts
orient(t, c) == OrientLoop(t, c, 0)

roughness(t) == Cardinality({i \in 1..Len(t.data) : t.data[i]})

\* check_line over a whole window: every pattern '#' lies on a set cell
HasMonster(t, y, x) ==
    \A r \in 1..MONSTER_HEIGHT : \A c \in 1..MONSTER_WIDTH :
        t.data[(y + r - 1) * t.size + x + c] \/ ~MONSTER_PATTERN[r][c]

\* update_line that clears every cell of the window
UpdateWindowWhole(t, y, x) ==
    [t EXCEPT !.data =
        Vec([i \in 1..Len(t.data) |->
            LET r == ((i - 1) \div t.size) - y + 1
                c == ((i - 1) % t.size) - x + 1
            IN  IF r \in 1..MONSTER_HEIGHT /\ c \in 1..MONSTER_WIDTH
                THEN FALSE
                ELSE t.data[i]])]

\* update_line over a whole window: *t &= !m
UpdateWindow(t, y, x) ==
    [t EXCEPT !.data =
        Vec([i \in 1..Len(t.data) |->
            LET r == ((i - 1) \div t.size) - y + 1
                c == ((i - 1) % t.size) - x + 1
            IN  IF /\ r \in 1..MONSTER_HEIGHT
                   /\ c \in 1..MONSTER_WIDTH
                   /\ MONSTER_PATTERN[r][c]
                THEN FALSE
                ELSE t.data[i]])]

\* rows.len() of data.chunks_mut(size)
RowCount(t) == (Len(t.data) + t.size - 1) \div t.size

\* for y in 0..rows.len() - MONSTER_HEIGHT
ScanRows(t) == RowCount(t) - MONSTER_HEIGHT

\* for x in 0..self.size - MONSTER_WIDTH
ScanCols(t) == t.size - MONSTER_WIDTH

\* for x in 0..self.size - MONSTER_WIDTH, from x on, in the rows at y;
\* matches are the windows <<y, x>> where has_monster held, in scan order
RECURSIVE ScanRow(_, _, _, _)
ScanRow(t, y, x, found) ==
    IF x >= ScanCols(t) THEN [found |-> found, tile |-> t, matches |-> << >>]
    ELSE IF HasMonster(t, y, x)
         THEN LET rest == ScanRow(UpdateWindow(t, y, x), y, x + 1, TRUE)
              IN  [rest EXCEPT !.matches = << << y, x >> >> \o @]
         ELSE ScanRow(t, y, x + 1, found)

\* the scan that never sets found_monsters
RECURSIVE ScanWindowsNoFlag(_, _, _)
ScanWindowsNoFlag(t, y, found) ==
    IF y >= ScanRows(t) THEN [found |-> FALSE, tile |-> t, matches |-> << >>]
    ELSE LET row == ScanRow(t, y, 0, found)
             rest == ScanWindowsNoFlag(row.tile, y + 1, found)
         IN  [rest EXCEPT !.matches = row.matches \o @]

\* for y in 0..rows.len() - MONSTER_HEIGHT, from y on
RECURSIVE ScanWindows(_, _, _)
ScanWindows(t, y, found) ==
    IF y >= ScanRows(t) THEN [found |-> found, tile |-> t, matches |-> << >>]
    ELSE LET row == ScanRow(t, y, 0, found)
             rest == ScanWindows(row.tile, y + 1, row.found)
         IN  [rest EXCEPT !.matches = row.matches \o @]

\* the windows <<y, x>> the two loops test in one orientation
ScannedWindows(t) ==
    {w \in (0..(ScanRows(t) - 1)) \X (0..(ScanCols(t) - 1)) : TRUE}

\* chunks_mut(0) panics; usize subtraction below zero panics in a debug
\* build and wraps in a release build, where the first slice taken with
\* the wrapped bound is out of range: either way the call aborts
ScanPanics(t) ==
    \/ t.size = 0
    \/ RowCount(t) < MONSTER_HEIGHT
    \/ (RowCount(t) > MONSTER_HEIGHT /\ t.size < MONSTER_WIDTH)

\* Tile::remove_monsters from iteration i on: the outcome and the tile left;
\* the call aborts in the scan, or in the rotate_right that follows a scan
\* without a match
RECURSIVE RemoveLoop(_, _)
RemoveLoop(t, i) ==
    IF i = 8 THEN [panic |-> FALSE, tile |-> t]
    ELSE IF ScanPanics(t) THEN [panic |-> TRUE, tile |-> t]
    ELSE LET scan == ScanWindows(t, 0, FALSE)
         IN  IF scan.found THEN [panic |-> FALSE, tile |-> scan.tile]
             ELSE IF RotatePanics(scan.tile) THEN [panic |-> TRUE, tile |-> scan.tile]
             ELSE RemoveLoop(NextOrientation(scan.tile, i), i + 1)

remove_monsters(t) == RemoveLoop(t, 0)

(***************************************************************************)
(* tile.rs: text parsing.  A line is the sequence of its characters, a     *)
(* character a string of length one, the input the sequence of its lines.  *)
(***************************************************************************)

DIGITS == << "0", "1", "2", "3", "4", "5", "6", "7", "8", "9" >>

IsDigit(ch) == \E d \in 1..10 : DIGITS[d] = ch

DigitValue(ch) == (CHOOSE d \in 1..10 : DIGITS[d] = ch) - 1

RECURSIVE DecimalValue(_, _, _)
DecimalValue(chars, i, acc) ==
    IF i > Len(chars) THEN acc
    ELSE DecimalValue(chars, i + 1, acc * 10 + DigitValue(chars[i]))

\* the digits of u64::MAX, 2^64 - 1
U64_MAX_DIGITS ==
    << "1", "8", "4", "4", "6", "7", "4", "4", "0", "7",
       "3", "7", "0", "9", "5", "5", "1", "6", "1", "5" >>

\* the number a string of digits denotes is above u64::MAX: without its
\* leading zeros it has more digits, or as many and a greater one at the
\* first place where the two differ
ExceedsU64(digits) ==
    LET n == Len(digits)
        nz == {i \in 1..n : digits[i] # "0"}
        first == IF nz = {} THEN n + 1 ELSE CHOOSE i \in nz : \A j \in nz : i <= j
        d == SubSeq(digits, first, n)
        m == U64_MAX_DIGITS
    IN  \/ Len(d) > Len(m)
        \/ /\ Len(d) = Len(m)
           /\ \E i \in 1..Len(m) :
                 /\ DigitValue(d[i]) > DigitValue(m[i])
                 /\ \A j \in 1..(i - 1) : d[j] = m[j]

\* str::parse::<u64>: an optional '+', then one or more decimal digits of a
\* number up to u64::MAX; None is the Err of parse
parse_u64(chars) ==
    LET body == IF Len(chars) > 0 /\ chars[1] = "+" THEN Tail(chars) ELSE chars
    IN  IF /\ Len(body) > 0
           /\ \A i \in 1..Len(body) : IsDigit(body[i])
           /\ ~ExceedsU64(body)
        THEN Some(DecimalValue(body, 1, 0))
        ELSE None

TILE_PREFIX == << "T", "i", "l", "e", " " >>

\* parse_id: strip_prefix("Tile "), strip_suffix(':'), parse; None is
\* Err("Could not parse id")
parse_id(line) ==
    IF /\ Len(line) >= Len(TILE_PREFIX) + 1
       /\ SubSeq(line, 1, Len(TILE_PREFIX)) = TILE_PREFIX
       /\ line[Len(line)] = ":"
    THEN parse_u64(SubSeq(line, Len(TILE_PREFIX) + 1, Len(line) - 1))
    ELSE None

\* write_row accepts the row: every character is '.' or '#'
RowKnown(row) == \A i \in 1..Len(row) : row[i] \in {".", "#"}

\* what write_row pushes for an accepted row
RowBits(row) == Vec([i \in 1..Len(row) |-> row[i] = "#"])

\* the rows after the first that Tile::parse reads: lines.take(size - 1),
\* cut at the first row write_row rejects
RECURSIVE TakeRows(_, _, _, _)
TakeRows(lines, pos, left, data) ==
    IF left = 0 \/ pos > Len(lines)
    THEN [err |-> "", data |-> data, pos |-> pos, rows |-> 0]
    ELSE IF ~RowKnown(lines[pos])
    THEN [err |-> "Unknown character", data |-> data, pos |-> pos + 1, rows |-> 0]
    ELSE LET rest == TakeRows(lines, pos + 1, left - 1, data \o RowBits(lines[pos]))
         IN  [rest EXCEPT !.rows = rest.rows + 1]

\* the edge_values array of Tile::parse
ParseEdges(t) ==
    << row_fwd(t, "Top"), row_fwd(t, "Bottom"),
       row_rev(t, "Top"), row_rev(t, "Bottom"),
       col_fwd(t, "Left"), col_fwd(t, "Right"),
       col_rev(t, "Left"), col_rev(t, "Right") >>

\* the comparison of neighbours made on the array as it is, not sorted
EdgesDistinctUnsorted(ev) == \A i \in 1..(Len(ev) - 1) : ev[i] # ev[i + 1]

\* sort_unstable, then windows(2).all(|w| w[0] != w[1]): no value twice
EdgesDistinct(ev) == \A i, j \in 1..Len(ev) : i # j => ev[i] # ev[j]

\* Tile::parse reading the iterator from line pos on: err is "" for Ok,
\* pos the next unread line
Tile_parse(lines, pos, id) ==
    LET failed(msg, p) == [err |-> msg, tile |-> MkTile(id, 0, << >>), pos |-> p]
    IN  IF pos > Len(lines) THEN failed("Missing tile data", pos)
        ELSE LET first_row == lines[pos]
                 sz == Len(first_row)
             IN  IF sz = 0 THEN failed("Empty tile", pos + 1)
                 ELSE IF sz > 32
                 THEN failed("Tiles larger than 32x32 not supported", pos + 1)
                 ELSE IF ~RowKnown(first_row) THEN failed("Unknown character", pos + 1)
                 ELSE LET more == TakeRows(lines, pos + 1, sz - 1, RowBits(first_row))
                          t    == MkTile(id, sz, more.data)
                      IN  IF more.err # "" THEN failed(more.err, more.pos)
                          ELSE IF more.rows + 1 # sz
                          THEN failed("Incomplete tile", more.pos)
                          ELSE IF EdgesDistinct(ParseEdges(t))
                          THEN [err |-> "", tile |-> t, pos |-> more.pos]
                          ELSE failed("Ambiguous edge values", more.pos)

\* parse_tiles from line pos on, with the tiles pushed so far
RECURSIVE ParseTilesLoop(_, _, _, _)
ParseTilesLoop(lines, pos, acc, tsz) ==
    IF pos > Len(lines) THEN [err |-> "", tiles |-> acc]
    ELSE IF Len(lines[pos]) = 0 THEN ParseTilesLoop(lines, pos + 1, acc, tsz)
    ELSE LET id == parse_id(lines[pos])
         IN  IF ~IsSome(id) THEN [err |-> "Could not parse id", tiles |-> acc]
             ELSE LET r == Tile_parse(lines, pos + 1, Unwrap(id))
                  IN  IF r.err # "" THEN [err |-> r.err, tiles |-> acc]
                      ELSE IF tsz # 0 /\ r.tile.size # tsz
                      THEN [err |-> "Inconsistent tile sizes", tiles |-> acc]
                      ELSE ParseTilesLoop(lines, r.pos, Append(acc, r.tile), r.tile.size)

parse_tiles(lines) == ParseTilesLoop(lines, 1, << >>, 0)

(***************************************************************************)
(* grid.rs                                                                 *)
(***************************************************************************)

\* Vec::remove that leaves the element in the vector
RemoveAtKeeps(s, idx) == s

\* slice.remove(idx) / slice[idx] = v, idx counted from 0
RemoveAt(s, idx) == SubSeq(s, 1, idx) \o SubSeq(s, idx + 2, Len(s))

SetAt(s, idx, v) == [s EXCEPT ![idx + 1] = v]

\* find_corner's closure: the non-empty connect() results of tile idx with
\* the tiles of another id, in input order
Connected(pt, idx) ==
    LET others == SelectSeq(pt, LAMBDA t : t.id # pt[idx + 1].id)
        conns  == [k \in 1..Len(others) |-> connect(pt[idx + 1], others[k])]
    IN  SelectSeq(conns, LAMBDA c : Len(c) > 0)

\* the closure content with a first and a second, whatever comes after
IsCornerCandidateOrMore(pt, idx) == Len(Connected(pt, idx)) >= 2

\* first, second and no third
IsCornerCandidate(pt, idx) == Len(Connected(pt, idx)) = 2

\* find_map: the first index (from 0) the closure accepts
RECURSIVE FindCandidate(_, _)
FindCandidate(pt, idx) ==
    IF idx >= Len(pt) THEN None
    ELSE IF IsCornerCandidate(pt, idx) THEN Some(idx)
    ELSE FindCandidate(pt, idx + 1)

\* find_corner that leaves the corner tile as the input gives it
OrientCornerAsGiven(t, edges1, edges2, k) ==
    [ok |-> TRUE, panic |-> FALSE, tile |-> t, calls |-> 0]

\* the constraints of the k-th pair (e1, e2), k from 0, e1 outermost
CornerConstraints(edges1, edges2, k) ==
    and_bottom(EdgeConstraints_right(edges1[(k \div Len(edges2)) + 1]),
               edges2[(k % Len(edges2)) + 1])

\* find_corner that hands the pairs to orient the other way round: e2 to the
\* right, e1 to the bottom
RECURSIVE OrientCornerSwapped(_, _, _, _)
OrientCornerSwapped(t, edges1, edges2, k) ==
    IF k >= Len(edges1) * Len(edges2)
    THEN [ok |-> FALSE, panic |-> FALSE, tile |-> t, calls |-> k]
    ELSE LET c == CornerConstraints(edges1, edges2, k)
             r == orient(t, and_bottom(EdgeConstraints_right(Unwrap(c.bottom)),
                                       Unwrap(c.right)))
         IN  IF r.ok \/ r.panic
             THEN [ok |-> r.ok, panic |-> r.panic, tile |-> r.tile, calls |-> k + 1]
             ELSE OrientCornerSwapped(r.tile, edges1, edges2, k + 1)

\* .any() over the pairs (e1, e2), e1 outermost, from pair k on; every
\* orient call works on the tile the call before left; calls is the number
\* of pairs orient was called with, panic the abort of the last of them
RECURSIVE OrientCorner(_, _, _, _)
OrientCorner(t, edges1, edges2, k) ==
    IF k >= Len(edges1) * Len(edges2)
    THEN [ok |-> FALSE, panic |-> FALSE, tile |-> t, calls |-> k]
    ELSE LET r == orient(t, CornerConstraints(edges1, edges2, k))
         IN  IF r.ok \/ r.panic
             THEN [ok |-> r.ok, panic |-> r.panic, tile |-> r.tile, calls |-> k + 1]
             ELSE OrientCorner(r.tile, edges1, edges2, k + 1)

\* find_corner: the index returned, parsed_tiles as the call leaves it, and
\* the calls of orient made: << k, constraints >> for the k-th pair; panic
\* for the call that aborts in orient
find_corner(pt) ==
    LET cand == FindCandidate(pt, 0)
    IN  IF ~IsSome(cand)
        THEN [corner |-> None, panic |-> FALSE, tiles |-> pt, tried |-> {}]
        ELSE LET idx == Unwrap(cand)
                 conn == Connected(pt, idx)
                 r == OrientCorner(pt[idx + 1], conn[1], conn[2], 0)
             IN  [corner |-> IF r.ok THEN Some(idx) ELSE None,
                  panic |-> r.panic,
                  tiles |-> SetAt(pt, idx, r.tile),
                  tried |-> {<< k, CornerConstraints(conn[1], conn[2], k) >> :
                                k \in 0..(r.calls - 1)}]

\* the constraints build_grid puts on the tile for position idx
\* the constraints of the fill loop without the left neighbour
FillConstraintsTopOnly(placed, sz) ==
    LET idx == Len(placed)
    IN  IF idx >= sz
        THEN and_top(EdgeConstraints_default, bottom_edge(placed[idx - sz + 1]))
        ELSE EdgeConstraints_default

FillConstraints(placed, sz) ==
    LET idx == Len(placed)
        c0 == EdgeConstraints_default
        c1 == IF idx % sz # 0 THEN and_left(c0, right_edge(placed[idx])) ELSE c0
    IN  IF idx >= sz THEN and_top(c1, bottom_edge(placed[idx - sz + 1])) ELSE c1

\* for src_idx in 0..parsed_tiles.len(): orient each pool tile in turn;
\* panic for the search that aborts in orient
RECURSIVE FillSearch(_, _, _)
FillSearch(pool, c, src_idx) ==
    IF src_idx >= Len(pool)
    THEN [success |-> FALSE, panic |-> FALSE, pool |-> pool, tile |-> << >>]
    ELSE LET r == orient(pool[src_idx + 1], c)
         IN  IF r.panic
             THEN [success |-> FALSE, panic |-> TRUE, pool |-> pool, tile |-> << >>]
             ELSE IF r.ok
             THEN [success |-> TRUE, panic |-> FALSE,
                   pool |-> RemoveAt(pool, src_idx), tile |-> << r.tile >>]
             ELSE FillSearch(SetAt(pool, src_idx, r.tile), c, src_idx + 1)

\* one iteration of build_grid's while loop
FillStep(pool, placed, sz) == FillSearch(pool, FillConstraints(placed, sz), 0)

\* build_grid from the state of its loop on: Err is "Ambiguous grid edge
\* constraints", "panic" the abort in orient
RECURSIVE FillLoop(_, _, _)
FillLoop(pool, placed, sz) ==
    IF Len(pool) = 0 THEN [err |-> "", tiles |-> placed]
    ELSE LET r == FillStep(pool, placed, sz)
         IN  IF r.panic THEN [err |-> "panic", tiles |-> placed]
             ELSE IF r.success THEN FillLoop(r.pool, placed \o r.tile, sz)
             ELSE [err |-> "Ambiguous grid edge constraints", tiles |-> placed]

build_grid(pt, cnr, sz) == FillLoop(RemoveAt(pt, cnr), << pt[cnr + 1] >>, sz)

MkGrid(sz, tsz, placed) == [size |-> sz, tile_size |-> tsz, tiles |-> placed]

\* Grid::parse: err is "" for Ok, "panic" for the abort at parsed_tiles[0]
\* or in an orient of find_corner or build_grid
Grid_parse(lines) ==
    LET r   == parse_tiles(lines)
        sz  == sqrt_exact(Len(r.tiles))
        bad(msg) == [err |-> msg, grid |-> MkGrid(0, 0, << >>)]
    IN  IF r.err # "" THEN bad(r.err)
        ELSE IF ~IsSome(sz) THEN bad("Non-square grid")
        ELSE IF Len(r.tiles) = 0 THEN bad("panic")
        ELSE LET c == find_corner(r.tiles)
             IN  IF c.panic THEN bad("panic")
                 ELSE IF ~IsSome(c.corner)
                 THEN bad("Could not find suitable top-left corner")
                 ELSE LET b == build_grid(c.tiles, Unwrap(c.corner), Unwrap(sz))
                      IN  IF b.err # "" THEN bad(b.err)
                          ELSE [err |-> "",
                                grid |-> MkGrid(Unwrap(sz), r.tiles[1].size, b.tiles)]

\* corner_ids reading its second id one tile too far
corner_ids_shifted(g) ==
    << g.tiles[1].id,
       g.tiles[g.size + 1].id,
       g.tiles[Len(g.tiles) - g.size + 1].id,
       g.tiles[Len(g.tiles)].id >>

\* Grid::corner_ids
corner_ids(g) ==
    << g.tiles[1].id,
       g.tiles[g.size].id,
       g.tiles[Len(g.tiles) - g.size + 1].id,
       g.tiles[Len(g.tiles)].id >>

\* a u64 as its 8 bytes, least significant first
U64Bytes(n) == [i \in 1..8 |-> IF i <= 4 THEN (n \div 256 ^ (i - 1)) % 256 ELSE 0]

\* the sum of the products a[i] * b[j] of column k, i + j = k + 1
RECURSIVE ColumnSum(_, _, _, _)
ColumnSum(a, b, k, i) ==
    IF i > Len(a) THEN 0
    ELSE (IF k + 1 - i \in 1..Len(b) THEN a[i] * b[k + 1 - i] ELSE 0)
            + ColumnSum(a, b, k, i + 1)

\* the 16 bytes of a * b from byte k on
RECURSIVE MulBytes(_, _, _, _)
MulBytes(a, b, k, carry) ==
    IF k > Len(a) + Len(b) THEN << >>
    ELSE LET sum == carry + ColumnSum(a, b, k, 1)
         IN  << sum % 256 >> \o MulBytes(a, b, k + 1, sum \div 256)

\* acc * id of u64: the wrapped product, and whether it overflowed
MulU64(acc, id) ==
    LET p == MulBytes(acc, U64Bytes(id), 1, 0)
    IN  [value |-> SubSeq(p, 1, 8), overflow |-> \E i \in 9..16 : p[i] # 0]

\* iter().product::<u64>() of main: the fold of the ids from 1, element k on
RECURSIVE product_u64(_, _, _)
product_u64(ids, k, acc) ==
    IF k > Len(ids) THEN [value |-> acc, overflow |-> FALSE]
    ELSE LET m == MulU64(acc, ids[k])
             r == product_u64(ids, k + 1, m.value)
         IN  [value |-> r.value, overflow |-> m.overflow \/ r.overflow]

\* the product main prints: value is the product modulo 2^64 in bytes;
\* overflow says that a multiplication of the fold did not fit
CornerProduct(g) == product_u64(corner_ids(g), 1, U64Bytes(1))

\* tile.data()[inner_start..inner_end] of merge_tiles, where the slice is in
\* range; where it is not the call aborts (MergePanics) and no slice is taken
InnerSlice(g, t, row) ==
    LET inner_start == g.tile_size * row + 1
        inner_end   == g.tile_size * (row + 1) - 1
    IN  SubSeq(t.data, inner_start + 1, inner_end)

\* for tile in grid_row.iter(), from tile k of the row on
RECURSIVE MergeRow(_, _, _, _)
MergeRow(g, grid_row, row, k) ==
    IF k > Len(grid_row) THEN << >>
    ELSE InnerSlice(g, grid_row[k], row) \o MergeRow(g, grid_row, row, k + 1)

\* for row in 1..=inner_size, from row on
RECURSIVE MergeRows(_, _, _)
MergeRows(g, grid_row, row) ==
    IF row > g.tile_size - 2 THEN << >>
    ELSE MergeRow(g, grid_row, row, 1) \o MergeRows(g, grid_row, row + 1)

\* for grid_row in self.tiles.chunks(self.size), from chunk gr on
RECURSIVE MergeChunks(_, _)
MergeChunks(g, gr) ==
    IF gr * g.size >= Len(g.tiles) THEN << >>
    ELSE MergeRows(g, SubSeq(g.tiles, gr * g.size + 1, (gr + 1) * g.size), 1)
            \o MergeChunks(g, gr + 1)

\* merge_tiles aborts before the unwrap: chunks(0), tile_size - 2 below 0
\* with a tile to slice, or a slice tile.data()[inner_start..inner_end]
\* that ends past the data of its tile
MergePanics(g) ==
    \/ g.size = 0
    \/ g.tile_size < 2 /\ g.tiles # << >>
    \/ \E k \in 1..Len(g.tiles), row \in 1..(g.tile_size - 2) :
          g.tile_size * (row + 1) - 1 > Len(g.tiles[k].data)

\* Grid::merge_tiles; None is the abort: of a slice out of range, or of the
\* unwrap() of a result that is not square
merge_tiles(g) == IF MergePanics(g) THEN None ELSE from_data(MergeChunks(g, 0), 0)

(***************************************************************************)
(* tile.rs tests: the 24x24 fixture of monsters_test                       *)
(***************************************************************************)

EXAMPLE_MONSTERS ==
    <<
       << ".","#",".","#",".",".","#",".","#","#",".",".",".","#",".","#","#",".",".","#","#","#","#","#" >>,
       << "#","#","#",".",".",".",".","#",".","#",".",".",".",".","#",".",".","#",".",".",".",".",".","." >>,
       << "#","#",".","#","#",".","#","#","#",".","#",".","#",".",".","#","#","#","#","#","#",".",".","." >>,
       << "#","#","#",".","#","#","#","#","#",".",".",".","#",".","#","#","#","#","#",".","#",".",".","#" >>,
       << "#","#",".","#",".",".",".",".","#",".","#","#",".","#","#","#","#",".",".",".","#",".","#","#" >>,
       << ".",".",".","#","#","#","#","#","#","#","#",".","#",".",".",".",".","#","#","#","#","#",".","#" >>,
       << ".",".",".",".","#",".",".","#",".",".",".","#","#",".",".","#",".","#",".","#","#","#",".","." >>,
       << ".","#","#","#","#",".",".",".","#",".",".","#",".",".",".",".",".","#",".",".",".",".",".","." >>,
       << "#",".",".","#",".","#","#",".",".","#",".",".","#","#","#",".","#",".","#","#",".",".",".","." >>,
       << "#",".","#","#","#","#",".",".","#",".","#","#","#","#",".","#",".","#",".","#","#","#",".","." >>,
       << "#","#","#",".","#",".","#",".",".",".","#",".","#","#","#","#","#","#",".","#",".",".","#","#" >>,
       << "#",".","#","#","#","#",".",".",".",".","#","#",".",".","#","#","#","#","#","#","#","#",".","#" >>,
       << "#","#",".",".","#","#",".","#",".",".",".","#",".",".",".","#",".","#",".","#",".","#",".","." >>,
       << ".",".",".","#",".",".","#",".",".","#",".","#",".","#","#",".",".","#","#","#",".","#","#","#" >>,
       << ".","#",".","#",".",".",".",".","#",".","#","#",".","#",".",".",".","#","#","#",".","#","#","." >>,
       << "#","#","#",".","#",".",".",".","#",".",".","#",".","#","#",".","#","#","#","#","#","#",".","." >>,
       << ".","#",".","#",".","#","#","#",".","#","#",".","#","#",".","#",".",".","#",".","#","#",".","." >>,
       << ".","#","#","#","#",".","#","#","#",".","#",".",".",".","#","#","#",".","#",".",".","#",".","#" >>,
       << ".",".","#",".","#",".",".","#",".",".","#",".","#",".","#",".","#","#","#","#",".","#","#","#" >>,
       << "#",".",".","#","#","#","#",".",".",".","#",".","#",".","#",".","#","#","#",".","#","#","#","." >>,
       << "#","#","#","#","#",".",".","#","#","#","#","#",".",".",".","#","#","#",".",".",".",".","#","#" >>,
       << "#",".","#","#",".",".","#",".",".","#",".",".",".","#",".",".","#","#","#","#",".",".",".","#" >>,
       << ".","#",".","#","#","#",".",".","#","#",".",".","#","#",".",".","#","#","#","#",".","#","#","." >>,
       << ".",".",".","#","#","#",".",".",".","#","#",".",".",".","#",".",".",".","#",".",".","#","#","#" >>
    >>

\* lines().flat_map(|s| s.chars().map(|c| c == '#')).collect()
FlatMapHash(lines) ==
    LET w == IF Len(lines) = 0 THEN 1 ELSE Len(lines[1])
    IN  Vec([i \in 1..(Len(lines) * w) |-> lines[((i - 1) \div w) + 1][((i - 1) % w) + 1] = "#"])

(***************************************************************************)
(* Inputs.  Two jigsaw puzzles in the text format main.rs reads, given     *)
(* scrambled: PUZZLE_A is a 2x2 grid of 6x6 tiles, PUZZLE_B a 3x3 grid of  *)
(* 7x7 tiles; in both, a border value is shared only by the two tiles that *)
(* are adjacent in the image.  A FOREIGN tile shares no border with any    *)
(* tile of its puzzle.  PUZZLE_D is a 3x3 grid of 10x10 tiles whose inner  *)
(* cells are the 24x24 image of monsters_test, with the same property.     *)
(* SHORT_3, SHORT_4 and SHORT_5 are files of 2x2 tiles of 6x6 whose last   *)
(* tile has 3, 4 and 5 rows, then blank lines.                             *)
(***************************************************************************)

PUZZLE_A ==
    <<
      [id |-> 22, rows |-> <<
        << "#",".",".","#","#","#" >>,
        << "#",".","#","#",".","." >>,
        << "#",".",".","#",".","." >>,
        << "#",".",".",".",".","." >>,
        << ".",".","#","#","#","." >>,
        << "#","#",".",".","#","." >> >>],
      [id |-> 11, rows |-> <<
        << ".",".","#","#",".","#" >>,
        << "#","#",".","#","#","#" >>,
        << "#",".","#","#","#","#" >>,
        << ".",".","#",".",".","#" >>,
        << ".",".","#",".",".","." >>,
        << ".",".","#",".","#","." >> >>],
      [id |-> 21, rows |-> <<
        << ".",".","#","#","#","." >>,
        << ".",".","#","#",".","#" >>,
        << "#",".",".","#","#","." >>,
        << "#","#","#","#","#","." >>,
        << "#","#",".",".",".","#" >>,
        << "#","#","#","#",".","#" >> >>],
      [id |-> 12, rows |-> <<
        << "#",".","#","#","#","." >>,
        << "#",".",".",".",".","#" >>,
        << "#",".","#",".",".","." >>,
        << ".","#",".",".","#","#" >>,
        << ".","#",".","#",".","#" >>,
        << "#",".","#","#",".","." >> >>]
    >>

FOREIGN_A ==
    [id |-> 99, rows |-> <<
      << "#",".",".","#",".","#" >>,
      << ".",".","#","#",".","#" >>,
      << "#",".",".",".",".","#" >>,
      << ".",".","#",".","#","." >>,
      << "#","#",".",".",".","#" >>,
      << "#","#",".","#",".","." >> >>]

PUZZLE_B ==
    <<
      [id |-> 11, rows |-> <<
        << "#","#","#",".","#","#","." >>,
        << ".",".",".","#","#","#","#" >>,
        << "#",".","#",".","#",".","." >>,
        << ".",".","#",".",".",".","#" >>,
        << ".",".",".",".","#",".","." >>,
        << "#",".",".","#",".",".","." >>,
        << ".","#","#","#","#","#","#" >> >>],
      [id |-> 31, rows |-> <<
        << "#","#",".",".",".","#","." >>,
        << ".",".",".","#","#",".","." >>,
        << ".","#",".",".","#","#","#" >>,
        << ".","#","#",".","#",".","." >>,
        << "#",".",".",".","#",".","." >>,
        << "#",".","#",".",".","#","#" >>,
        << ".",".","#",".","#","#","." >> >>],
      [id |-> 13, rows |-> <<
        << ".",".",".","#","#","#","#" >>,
        << ".","#","#","#",".","#","." >>,
        << "#",".",".",".","#",".","." >>,
        << "#","#","#",".",".","#","#" >>,
        << "#","#","#","#",".","#","#" >>,
        << ".","#","#","#","#",".","." >>,
        << "#",".",".",".","#",".","." >> >>],
      [id |-> 21, rows |-> <<
        << ".","#",".","#","#","#","." >>,
        << "#","#",".","#",".","#","#" >>,
        << ".","#",".",".","#","#","." >>,
        << ".",".","#","#","#",".","#" >>,
        << "#","#",".",".",".",".","." >>,
        << ".",".","#","#","#",".","." >>,
        << ".","#","#",".","#",".","#" >> >>],
      [id |-> 23, rows |-> <<
        << ".","#",".","#",".","#","#" >>,
        << ".",".",".","#",".","#","#" >>,
        << "#",".",".","#","#",".","." >>,
        << "#","#",".",".",".",".","." >>,
        << "#","#","#",".","#","#","#" >>,
        << ".","#",".",".",".","#","#" >>,
        << "#","#",".","#","#","#","." >> >>],
      [id |-> 12, rows |-> <<
        << "#","#","#","#",".",".","." >>,
        << ".",".",".",".","#","#","." >>,
        << ".",".",".",".","#","#","#" >>,
        << "#","#",".",".",".","#","." >>,
        << ".","#","#","#","#","#","." >>,
        << ".","#","#","#",".","#","#" >>,
        << ".","#","#","#","#","#","#" >> >>],
      [id |-> 33, rows |-> <<
        << "#","#",".","#","#","#","#" >>,
        << "#",".",".","#","#","#","#" >>,
        << ".",".",".",".","#",".","#" >>,
        << ".",".","#","#",".","#","#" >>,
        << "#","#",".",".",".",".","." >>,
        << "#",".","#","#",".","#","." >>,
        << ".",".",".","#","#",".","#" >> >>],
      [id |-> 22, rows |-> <<
        << ".",".","#","#",".","#","#" >>,
        << "#",".",".",".","#",".","#" >>,
        << "#",".","#","#",".",".","." >>,
        << ".","#",".","#","#","#","#" >>,
        << "#",".","#",".","#","#","." >>,
        << ".","#","#","#","#",".","#" >>,
        << "#","#",".",".","#",".","." >> >>],
      [id |-> 32, rows |-> <<
        << "#","#",".",".",".","#","." >>,
        << ".",".",".","#","#",".","." >>,
        << ".","#",".","#",".","#","#" >>,
        << "#",".",".",".","#",".","#" >>,
        << "#","#",".","#",".","#","." >>,
        << "#",".","#","#",".","#","#" >>,
        << "#","#","#","#",".","#","#" >> >>]
    >>

FOREIGN_B ==
    [id |-> 99, rows |-> <<
      << ".","#",".","#","#",".","." >>,
      << ".",".","#",".","#","#","#" >>,
      << ".","#",".","#",".","#","." >>,
      << ".","#",".",".",".",".","#" >>,
      << "#","#",".","#",".",".","#" >>,
      << "#",".",".","#",".","#","." >>,
      << "#",".",".",".",".","#","#" >> >>]

\* a 2x2 grid of 6x6 tiles in which tiles 11 and 22, diagonal in the image,
\* also share the value of one outer border
PUZZLE_C ==
    <<
      [id |-> 12, rows |-> <<
        << "#",".","#","#","#","#" >>,
        << ".",".","#","#",".","#" >>,
        << ".",".","#",".",".","#" >>,
        << "#","#",".",".",".","." >>,
        << ".",".",".","#",".","." >>,
        << ".",".","#",".",".","." >> >>],
      [id |-> 11, rows |-> <<
        << ".","#",".",".",".","." >>,
        << ".",".","#",".",".","#" >>,
        << "#",".","#",".",".","#" >>,
        << "#",".","#","#",".","#" >>,
        << "#","#",".","#","#","#" >>,
        << ".",".",".","#","#","#" >> >>],
      [id |-> 22, rows |-> <<
        << ".",".",".",".","#","#" >>,
        << ".","#",".","#","#","#" >>,
        << "#","#",".",".",".","#" >>,
        << "#","#","#","#",".","#" >>,
        << "#",".","#","#","#","." >>,
        << ".",".","#","#",".","#" >> >>],
      [id |-> 21, rows |-> <<
        << "#","#",".",".",".","." >>,
        << "#","#","#",".",".","#" >>,
        << "#",".","#","#","#","." >>,
        << "#",".",".","#","#","#" >>,
        << "#",".","#",".",".","." >>,
        << ".","#","#","#",".","#" >> >>]
    >>

FOREIGN_C ==
    [id |-> 99, rows |-> <<
      << "#",".","#",".","#","#" >>,
      << ".",".",".","#","#","#" >>,
      << "#","#","#","#",".","." >>,
      << ".",".",".","#",".","." >>,
      << ".","#",".","#",".","#" >>,
      << "#","#",".","#","#","." >> >>]

PUZZLE_D ==
    <<
      [id |-> 1427, rows |-> <<
        << "#","#",".",".",".","#",".",".","#","." >>,
        << "#",".","#","#","#","#",".",".",".","#" >>,
        << ".","#",".","#","#",".","#",".","#","#" >>,
        << ".","#","#","#",".",".","#","#","#","." >>,
        << ".","#","#","#",".",".",".",".",".","." >>,
        << "#",".","#",".","#","#","#","#","#","." >>,
        << "#",".","#","#","#",".",".","#",".","#" >>,
        << "#","#",".",".",".",".","#",".",".","." >>,
        << "#",".","#",".",".",".",".","#","#","#" >>,
        << ".",".","#","#","#","#",".","#",".","#" >> >>],
      [id |-> 2311, rows |-> <<
        << ".",".","#","#","#",".",".",".",".","#" >>,
        << ".","#","#",".",".",".","#",".","#","." >>,
        << "#",".","#",".",".",".",".","#",".","." >>,
        << ".","#",".","#",".","#",".",".","#","#" >>,
        << ".","#",".",".",".","#",".","#","#","." >>,
        << ".","#",".","#","#",".","#","#","#","." >>,
        << "#","#","#","#",".","#",".",".",".","." >>,
        << ".",".",".",".","#","#",".",".","#","#" >>,
        << ".","#",".",".","#",".",".",".",".","." >>,
        << ".","#","#","#","#",".",".",".","#","#" >> >>],
      [id |-> 3079, rows |-> <<
        << "#","#",".",".","#",".","#",".",".","." >>,
        << ".",".","#",".",".",".",".",".",".","#" >>,
        << "#",".","#",".","#","#","#",".",".","." >>,
        << ".",".","#","#","#","#","#",".","#","#" >>,
        << ".","#",".",".",".","#",".","#","#","#" >>,
        << ".","#","#","#",".","#",".",".","#","#" >>,
        << "#","#","#","#","#","#",".",".",".","#" >>,
        << ".",".","#",".",".",".",".",".",".","." >>,
        << ".","#",".",".","#","#","#","#","#","." >>,
        << "#","#","#","#","#","#","#",".",".","." >> >>],
      [id |-> 2473, rows |-> <<
        << ".","#","#","#","#","#",".","#",".","." >>,
        << "#","#","#","#","#","#","#",".",".","." >>,
        << ".",".","#","#","#",".","#","#",".","#" >>,
        << ".",".","#","#","#",".","#","#","#","#" >>,
        << "#",".","#",".","#",".","#",".",".","#" >>,
        << ".","#","#","#","#","#","#",".","#","#" >>,
        << ".","#","#",".","#",".",".","#","#","." >>,
        << ".",".","#",".","#","#","#",".",".","." >>,
        << "#","#",".","#","#",".",".",".",".","." >>,
        << "#","#",".",".","#",".","#",".",".","." >> >>],
      [id |-> 1489, rows |-> <<
        << ".","#",".",".",".",".","#","#",".","#" >>,
        << "#",".","#",".",".",".","#","#",".","." >>,
        << ".",".",".","#","#",".",".","#","#","#" >>,
        << "#",".",".","#",".",".",".","#",".","#" >>,
        << ".","#",".",".",".","#","#","#","#","#" >>,
        << "#",".","#",".","#",".","#",".",".","." >>,
        << "#",".","#",".","#",".","#",".",".","#" >>,
        << "#","#","#",".",".",".","#",".","#","#" >>,
        << "#","#",".","#","#",".","#","#",".","." >>,
        << ".","#","#",".",".",".","#",".","#","#" >> >>],
      [id |-> 2971, rows |-> <<
        << "#","#",".",".","#",".",".",".",".","#" >>,
        << ".",".",".","#","#","#",".",".",".","." >>,
        << "#",".",".","#","#","#",".","#",".","#" >>,
        << "#",".","#",".",".","#","#",".","#","#" >>,
        << "#","#",".",".","#","#","#","#","#","#" >>,
        << ".",".","#","#","#","#",".",".","#","." >>,
        << "#","#",".",".","#",".","#",".",".","." >>,
        << "#","#","#",".","#","#","#","#",".","." >>,
        << ".","#","#","#",".","#",".","#",".","#" >>,
        << "#",".","#","#",".",".",".",".",".","." >> >>],
      [id |-> 1951, rows |-> <<
        << "#","#","#",".",".",".",".","#","#","." >>,
        << "#",".","#","#","#","#",".",".",".","." >>,
        << ".",".",".",".",".","#",".",".","#","." >>,
        << "#",".",".",".","#","#","#","#","#","#" >>,
        << ".","#","#",".","#",".",".",".",".","." >>,
        << "#","#","#","#",".","#","#","#","#","." >>,
        << ".","#","#",".","#","#",".","#","#","." >>,
        << ".","#","#","#",".",".",".",".","#","#" >>,
        << "#",".","#",".","#",".",".","#",".","." >>,
        << ".",".","#","#",".",".",".","#",".","." >> >>],
      [id |-> 1171, rows |-> <<
        << "#",".","#",".","#",".",".","#","#","." >>,
        << ".","#","#","#",".",".","#",".",".","#" >>,
        << ".",".","#","#",".","#","#","#","#","." >>,
        << "#","#",".",".",".","#","#","#","#","#" >>,
        << ".","#","#",".",".",".",".","#","#","." >>,
        << "#",".","#","#","#",".","#","#","#","#" >>,
        << "#","#","#","#",".","#","#","#","#","#" >>,
        << ".","#",".","#",".",".","#",".","#","#" >>,
        << ".",".",".","#","#",".","#",".",".","#" >>,
        << ".",".","#",".","#","#","#","#","#","." >> >>],
      [id |-> 2729, rows |-> <<
        << "#","#",".","#",".",".","#","#","#","." >>,
        << "#","#","#","#","#","#",".",".","#","." >>,
        << "#",".",".","#",".","#",".","#","#","." >>,
        << ".",".","#","#","#",".",".",".","#","." >>,
        << ".","#","#",".","#",".","#","#",".","." >>,
        << ".",".","#","#","#","#",".",".","#","." >>,
        << ".","#","#",".","#","#",".",".",".","#" >>,
        << "#","#",".","#",".",".","#",".",".","#" >>,
        << "#",".",".",".",".","#",".",".",".","." >>,
        << ".",".","#","#","#","#",".","#",".","#" >> >>]
    >>

FOREIGN_D ==
    [id |-> 9999, rows |-> <<
      << ".","#",".","#",".",".",".",".",".","#" >>,
      << "#",".",".","#","#","#","#","#",".","." >>,
      << "#","#","#",".","#",".","#","#",".","#" >>,
      << ".","#",".","#","#","#","#","#",".","." >>,
      << ".","#",".","#","#",".","#","#",".","#" >>,
      << ".",".","#","#","#",".","#",".",".","#" >>,
      << ".",".",".",".",".","#","#",".","#","#" >>,
      << ".",".","#","#","#",".","#",".",".","#" >>,
      << "#","#",".","#","#","#",".","#","#","#" >>,
      << ".",".",".",".","#",".","#",".",".","#" >> >>]

SHORT_3 ==
    <<
      [id |-> 11, rows |-> <<
        << "#","#","#",".","#","." >>,
        << ".",".",".",".","#","." >>,
        << "#",".","#",".","#","." >>,
        << ".",".","#",".","#","." >>,
        << "#",".",".",".","#","#" >>,
        << "#","#","#",".",".","." >> >>],
      [id |-> 12, rows |-> <<
        << ".",".","#","#","#","." >>,
        << ".","#",".","#","#","#" >>,
        << ".","#",".",".","#","." >>,
        << ".",".","#","#",".","#" >>,
        << "#","#",".","#",".","." >>,
        << ".","#",".","#","#","." >> >>],
      [id |-> 21, rows |-> <<
        << "#","#","#",".",".","." >>,
        << "#",".",".",".",".","." >>,
        << "#","#",".","#",".","." >>,
        << ".","#","#",".","#","." >>,
        << ".",".",".",".","#","#" >>,
        << "#","#","#",".","#","#" >> >>],
      [id |-> 22, rows |-> <<
        << ".","#",".","#","#","." >>,
        << "#","#","#",".",".","." >>,
        << "#","#","#","#",".","#" >>,
        << >>,
        << >>,
        << >> >>]
    >>

SHORT_4 ==
    <<
      [id |-> 11, rows |-> <<
        << "#","#","#","#",".","#" >>,
        << ".",".",".","#","#","#" >>,
        << "#","#",".",".",".","." >>,
        << ".",".","#",".",".","#" >>,
        << "#",".","#",".","#","#" >>,
        << ".","#","#",".","#","." >> >>],
      [id |-> 12, rows |-> <<
        << "#","#",".","#",".","." >>,
        << "#",".","#",".","#","." >>,
        << ".",".",".","#","#","#" >>,
        << "#",".","#",".","#","#" >>,
        << "#",".","#",".","#","#" >>,
        << ".",".",".","#","#","." >> >>],
      [id |-> 21, rows |-> <<
        << ".","#","#",".","#","." >>,
        << ".",".","#",".",".","." >>,
        << ".","#","#","#",".","." >>,
        << "#",".","#","#","#","#" >>,
        << ".",".",".",".","#","." >>,
        << "#",".","#","#","#","." >> >>],
      [id |-> 22, rows |-> <<
        << ".",".",".","#","#","." >>,
        << "#","#",".","#",".","#" >>,
        << ".","#",".",".","#","#" >>,
        << ".",".","#","#","#","#" >>,
        << >>,
        << >> >>]
    >>

SHORT_5 ==
    <<
      [id |-> 11, rows |-> <<
        << "#","#","#",".","#","." >>,
        << ".",".",".",".","#","." >>,
        << "#",".","#",".","#","." >>,
        << ".",".","#",".","#","." >>,
        << "#",".",".",".","#","#" >>,
        << "#","#","#",".",".","." >> >>],
      [id |-> 12, rows |-> <<
        << ".",".","#","#","#","." >>,
        << ".","#",".","#","#","#" >>,
        << ".","#",".",".","#","." >>,
        << ".",".","#","#",".","#" >>,
        << "#","#",".","#",".","." >>,
        << ".","#",".","#","#","." >> >>],
      [id |-> 21, rows |-> <<
        << "#","#","#",".",".","." >>,
        << "#",".",".",".",".","." >>,
        << "#","#",".","#",".","." >>,
        << ".","#","#",".","#","." >>,
        << ".",".",".",".","#","#" >>,
        << "#","#","#",".","#","#" >> >>],
      [id |-> 22, rows |-> <<
        << ".","#",".","#","#","." >>,
        << ".","#",".",".","#","#" >>,
        << ".",".","#",".",".","#" >>,
        << "#",".","#",".",".","." >>,
        << "#",".",".","#",".","." >>,
        << >> >>]
    >>

Puzzles == << PUZZLE_A, PUZZLE_B, PUZZLE_C, PUZZLE_D >>

Foreign == << FOREIGN_A, FOREIGN_B, FOREIGN_C, FOREIGN_D >>

\* input files whose last tile has blank lines for its last 3, 2 and 1 rows
ShortPuzzles == << SHORT_3, SHORT_4, SHORT_5 >>

\* what is added to the ids of the tiles of an input of kind "high_ids": with
\* the first the product of the corner ids of PUZZLE_A still fits a u64,
\* with the second it does not
HighIdOffsets == << 65519, 65520 >>

\* bounds of the scenarios
MaxShift == 1

MaxSeed == 1

MaxSide == 21

MaxNoise == 1

\* the tile after the first j rotate/flip steps of the orientation sequence
RECURSIVE Turned(_, _, _)
Turned(t, i, j) == IF i >= j THEN t ELSE Turned(NextOrientation(t, i), i + 1, j)

TileOfRows(p) == MkTile(p.id, Len(p.rows), FlatMapHash(p.rows))

RenderRows(t) ==
    Vec([y \in 1..t.size |->
        Vec([x \in 1..t.size |-> IF t.data[(y - 1) * t.size + x] THEN "#" ELSE "."])])

RECURSIVE DecimalChars(_)
DecimalChars(n) ==
    IF n < 10 THEN << DIGITS[n + 1] >>
    ELSE Append(DecimalChars(n \div 10), DIGITS[(n % 10) + 1])

\* a tile as the input file gives it: header, rows, blank line
TileText(t) ==
    << TILE_PREFIX \o DecimalChars(t.id) \o << ":" >> >> \o RenderRows(t) \o << << >> >>

\* how far tile b of the puzzle is turned in scenario in
BaseTurn(in, b) == IF b = in.t THEN in.o ELSE (in.seed * b) % 8

\* the puzzle of the scenario
PuzzleOf(in) == IF in.kind = "blank_rows" THEN ShortPuzzles[in.pz] ELSE Puzzles[in.pz]

IdOffset(in) == IF in.kind = "high_ids" THEN HighIdOffsets[in.t] ELSE 0

ScenarioTile(in, b) ==
    LET src == IF b = in.swap THEN Foreign[in.pz] ELSE Puzzles[in.pz][b]
    IN  Turned(TileOfRows([src EXCEPT !.id = @ + IdOffset(in)]), 0, BaseTurn(in, b))

\* the puzzle's tiles in the order of the scenario: kind "grid" gives them
\* all, rotated by three places per shift and without tile drop; "single" only tile t;
\* "empty" none
ScenarioOrder(in) ==
    LET n == Len(PuzzleOf(in))
    IN  IF in.kind = "empty" THEN << >>
        ELSE IF in.kind = "single" THEN << in.t >>
        ELSE SelectSeq([k \in 1..n |-> ((k - 1 + 3 * in.shift) % n) + 1],
                       LAMBDA b : b # in.drop)

ScenarioTiles(in) ==
    LET ord == ScenarioOrder(in)
    IN  [k \in 1..Len(ord) |-> ScenarioTile(in, ord[k])]

RECURSIVE TextOf(_, _)
TextOf(ts, k) == IF k > Len(ts) THEN << >> ELSE TileText(ts[k]) \o TextOf(ts, k + 1)

\* the input file of a puzzle written as it is given: header, the lines of
\* the tile (blank ones included), blank line
RECURSIVE TextOfRows(_, _)
TextOfRows(ps, k) ==
    IF k > Len(ps) THEN << >>
    ELSE << TILE_PREFIX \o DecimalChars(ps[k].id) \o << ":" >> >> \o ps[k].rows \o << << >> >>
            \o TextOfRows(ps, k + 1)

\* the lines of the input. Kind "long" gives the second row of tile in.t one
\* cell more; kind "big_id" writes the number of the first header as 2^64
\* (in.t = 1), as 20 nines (2), after 20 zeros (3), after a '+' (4); kind
\* "blank_rows" is the file of a puzzle of ShortPuzzles; kind "high_ids" has
\* HighIdOffsets[in.t] added to every id
InputLines(in) ==
    LET ls == IF in.kind = "blank_rows" THEN TextOfRows(ShortPuzzles[in.pz], 1)
              ELSE TextOf(ScenarioTiles(in), 1)
        n  == Len(Puzzles[in.pz][1].rows)
        id == SubSeq(ls[1], Len(TILE_PREFIX) + 1, Len(ls[1]) - 1)
        number == IF in.t = 1 THEN [U64_MAX_DIGITS EXCEPT ![Len(U64_MAX_DIGITS)] = "6"]
                  ELSE IF in.t = 2 THEN Vec([i \in 1..20 |-> "9"])
                  ELSE IF in.t = 3 THEN Vec([i \in 1..20 |-> "0"]) \o id
                  ELSE << "+" >> \o id
    IN  IF in.kind = "long"
        THEN [ls EXCEPT ![(in.t - 1) * (n + 2) + 3] = Append(@, "#")]
        ELSE IF in.kind = "big_id"
        THEN [ls EXCEPT ![1] = TILE_PREFIX \o number \o << ":" >>]
        ELSE ls

Scenario(kind, p, s, t, o, sd, d, w) ==
    [kind |-> kind, pz |-> p, shift |-> s, t |-> t, o |-> o, seed |-> sd,
     drop |-> d, swap |-> w]

PuzzleTiles(p) == 1..Len(Puzzles[p])

\* the puzzles of tiles of 10 rows are given in their own order, with the
\* other tiles as the puzzle has them
Shifts(p) == IF Len(Puzzles[p][1].rows) < 10 THEN 0..MaxShift ELSE {0}

Seeds(p) == IF Len(Puzzles[p][1].rows) < 10 THEN 0..MaxSeed ELSE {0}

\* every tile of a puzzle in every orientation, the others turned by seed
ValidInputs ==
    UNION {{Scenario("grid", p, s, t, o, sd, 0, 0) :
                s \in Shifts(p), t \in PuzzleTiles(p), o \in 0..7, sd \in Seeds(p)} :
           p \in 1..Len(Puzzles)}

\* a tile missing, a tile replaced by a foreign one, one tile only, a row
\* of a tile one cell too long, a first header whose number is written with
\* 20 digits and more or with a sign, ids of five digits, a last tile with
\* blank lines for rows, no tile
BrokenInputs ==
    UNION {{Scenario("grid", p, 0, 1, 0, 0, d, 0) : d \in PuzzleTiles(p)}
           \cup {Scenario("grid", p, 0, 1, 0, 0, 0, w) : w \in PuzzleTiles(p)}
           \cup {Scenario("single", p, 0, 1, 0, 0, 0, 0)}
           \cup {Scenario("long", p, 0, t, o, 0, 0, 0) : t \in PuzzleTiles(p), o \in {0, 3}}
           \cup {Scenario("big_id", p, 0, t, 0, 0, 0, 0) : t \in 1..4}
           \cup {Scenario("high_ids", p, 0, t, 0, 0, 0, 0) : t \in 1..Len(HighIdOffsets)} :
           p \in 1..Len(Puzzles)}
    \cup {Scenario("blank_rows", p, 0, 1, 0, 0, 0, 0) : p \in 1..Len(ShortPuzzles)}
    \cup {Scenario("empty", 1, 0, 1, 0, 0, 0, 0)}

GridInputs == ValidInputs \cup BrokenInputs

NoTile == MkTile(0, 0, << >>)

(***************************************************************************)
(* main.rs run(): Grid::parse, corner_ids, merge_tiles, remove_monsters,   *)
(* roughness                                                               *)
(***************************************************************************)

Init ==
    /\ input \in GridInputs
    /\ pc = "parse"
    /\ parsed_tiles = << >>
    /\ tiles = << >>
    /\ size = 0
    /\ tile_size = 0
    /\ corner = 0
    /\ outcome = "none"
    /\ tile = NoTile
    /\ before = NoTile
    /\ ret = << >>
    /\ step = 0
    /\ scanned = {}

\* Grid::parse up to the call of find_corner
GridParse ==
    /\ pc = "parse"
    /\ LET r == parse_tiles(InputLines(input))
           sz == sqrt_exact(Len(r.tiles))
       IN  IF r.err # ""
           THEN /\ outcome' = r.err
                /\ pc' = "done"
                /\ UNCHANGED <<parsed_tiles, size, tile_size>>
           ELSE IF ~IsSome(sz)
           THEN /\ outcome' = "Non-square grid"
                /\ pc' = "done"
                /\ UNCHANGED <<parsed_tiles, size, tile_size>>
           ELSE IF Len(r.tiles) = 0
           THEN \* parsed_tiles[0] is out of range
                /\ outcome' = "panic"
                /\ pc' = "aborted"
                /\ UNCHANGED <<parsed_tiles, size, tile_size>>
           ELSE /\ parsed_tiles' = r.tiles
                /\ size' = Unwrap(sz)
                /\ tile_size' = r.tiles[1].size
                /\ pc' = "find_corner"
                /\ UNCHANGED outcome
    /\ UNCHANGED <<input, tiles, corner, tile, before, ret, step, scanned>>

FindCorner ==
    /\ pc = "find_corner"
    /\ LET r == find_corner(parsed_tiles)
       IN  /\ parsed_tiles' = r.tiles
           /\ scanned' = r.tried
           /\ IF r.panic
              THEN \* rotate_right aborts in orient
                   /\ outcome' = "panic"
                   /\ pc' = "aborted"
                   /\ UNCHANGED corner
              ELSE IF IsSome(r.corner)
              THEN /\ corner' = Unwrap(r.corner)
                   /\ pc' = "build_grid"
                   /\ UNCHANGED outcome
              ELSE /\ outcome' = "Could not find suitable top-left corner"
                   /\ pc' = "done"
                   /\ UNCHANGED corner
    /\ UNCHANGED <<input, tiles, size, tile_size, tile, before, ret, step>>

\* build_grid: tiles.push(parsed_tiles.remove(corner))
BuildGridBegin ==
    /\ pc = "build_grid"
    /\ tiles' = << parsed_tiles[corner + 1] >>
    /\ parsed_tiles' = RemoveAt(parsed_tiles, corner)
    /\ pc' = "fill"
    /\ UNCHANGED <<input, size, tile_size, corner, outcome, tile, before, ret, step, scanned>>

\* build_grid: one iteration of while !parsed_tiles.is_empty()
BuildGridStep ==
    /\ pc = "fill"
    /\ Len(parsed_tiles) > 0
    /\ LET r == FillStep(parsed_tiles, tiles, size)
       IN  /\ parsed_tiles' = r.pool
           /\ tiles' = tiles \o r.tile
           /\ IF r.panic
              THEN \* rotate_right aborts in orient
                   /\ outcome' = "panic"
                   /\ pc' = "aborted"
              ELSE IF r.success
              THEN UNCHANGED <<pc, outcome>>
              ELSE /\ outcome' = "Ambiguous grid edge constraints"
                   /\ pc' = "done"
    /\ UNCHANGED <<input, size, tile_size, corner, tile, before, ret, step, scanned>>

\* build_grid returns Ok(tiles) and Grid::parse the Grid
BuildGridDone ==
    /\ pc = "fill"
    /\ Len(parsed_tiles) = 0
    /\ outcome' = "Ok"
    /\ pc' = "corner_ids"
    /\ UNCHANGED <<input, parsed_tiles, tiles, size, tile_size, corner, tile, before,
                   ret, step, scanned>>

\* main: grid.corner_ids().iter().product::<u64>(). A product that does not
\* fit a u64 aborts in a build with overflow checks (debug) and wraps in a
\* build without (release)
CornerIds ==
    /\ pc = "corner_ids"
    /\ ret' = corner_ids(MkGrid(size, tile_size, tiles))
    /\ \/ pc' = "merge_tiles"
       \/ /\ CornerProduct(MkGrid(size, tile_size, tiles)).overflow
          /\ pc' = "aborted"
    /\ UNCHANGED <<input, parsed_tiles, tiles, size, tile_size, corner, outcome, tile,
                   before, step, scanned>>

MergeTiles ==
    /\ pc = "merge_tiles"
    /\ LET m == merge_tiles(MkGrid(size, tile_size, tiles))
       IN  IF IsSome(m)
           THEN /\ tile' = Unwrap(m)
                /\ before' = Unwrap(m)
                /\ pc' = "remove_monsters"
                /\ UNCHANGED outcome
           ELSE /\ pc' = "aborted"
                /\ UNCHANGED <<tile, before, outcome>>
    /\ step' = 0
    /\ UNCHANGED <<input, parsed_tiles, tiles, size, tile_size, corner, ret, scanned>>

\* Tile::remove_monsters: iteration step of for i in 0..8
RemoveMonstersIter ==
    /\ pc = "remove_monsters"
    /\ IF ScanPanics(tile)
       THEN /\ pc' = "aborted"
            /\ UNCHANGED <<tile, ret, step, scanned>>
       ELSE LET scan == ScanWindows(tile, 0, FALSE)
            IN  /\ scanned' = ScannedWindows(tile)
                /\ ret' = scan.matches
                /\ IF scan.found
                   THEN /\ tile' = scan.tile
                        /\ pc' = "monsters_removed"
                        /\ UNCHANGED step
                   ELSE IF RotatePanics(scan.tile)
                   THEN /\ pc' = "aborted"
                        /\ UNCHANGED <<tile, step>>
                   ELSE /\ tile' = NextOrientation(scan.tile, step)
                        /\ step' = step + 1
                        /\ pc' = IF step + 1 = 8 THEN "monsters_removed" ELSE pc
    /\ UNCHANGED <<input, parsed_tiles, tiles, size, tile_size, corner, outcome, before>>

Roughness ==
    /\ pc = "monsters_removed"
    /\ ret' = roughness(tile)
    /\ pc' = "finished"
    /\ UNCHANGED <<input, parsed_tiles, tiles, size, tile_size, corner, outcome, tile,
                   before, step, scanned>>

Next ==
    \/ GridParse
    \/ FindCorner
    \/ BuildGridBegin
    \/ BuildGridStep
    \/ BuildGridDone
    \/ CornerIds
    \/ MergeTiles
    \/ RemoveMonstersIter
    \/ Roughness

Spec == Init /\ [][Next]_vars

(***************************************************************************)
(* Pattern scrubbing on its own: remove_monsters and roughness on a tile   *)
(* made by from_data, as monsters_test does                                *)
(***************************************************************************)

\* a cell of the background noise of density 1/4, none for k = 0
NoiseCell(k, y, x) == k > 0 /\ (3 * y + 5 * x + k) % 4 = 0

\* cell (y, x) is a '#' of a pattern drawn with its top-left corner at m
MonsterCell(m, y, x) ==
    /\ y - m[1] + 1 \in 1..MONSTER_HEIGHT
    /\ x - m[2] + 1 \in 1..MONSTER_WIDTH
    /\ MONSTER_PATTERN[y - m[1] + 1][x - m[2] + 1]

Canvas(n, mons, k) ==
    Vec([i \in 1..(n * n) |->
        LET y == (i - 1) \div n
            x == (i - 1) % n
        IN  (\E j \in 1..Len(mons) : MonsterCell(mons[j], y, x)) \/ NoiseCell(k, y, x)])

\* where a pattern is drawn first: top, last scanned row, bottom row
FirstPlaces(n) ==
    {<<y, x>> \in {0, n - MONSTER_HEIGHT - 1, n - MONSTER_HEIGHT} \X (0..(n - MONSTER_WIDTH)) : TRUE}

\* a second pattern: overlapping the first in one cell, or right below it
SecondOffsets == {<<1, 0>>, <<3, 0>>}

Placements(n) ==
    {<< >>}
    \cup {<< p >> : p \in FirstPlaces(n)}
    \cup {<< pd[1], <<pd[1][1] + pd[2][1], pd[1][2] + pd[2][2]>> >> :
            pd \in {q \in FirstPlaces(n) \X SecondOffsets :
                        q[1][1] + q[2][1] <= n - MONSTER_HEIGHT}}

Sides == (0..4) \cup (19..MaxSide)

Image(kind, n, turn, mons, k) ==
    [kind |-> kind, side |-> n, turn |-> turn, mons |-> mons, noise |-> k]

ScrubInputs ==
    UNION {{Image("image", n, j, ms, k) : j \in 0..7, ms \in Placements(n), k \in 0..MaxNoise} :
           n \in Sides}
    \cup {Image("reference", Len(EXAMPLE_MONSTERS), 0, << >>, 0)}

ImageOf(in) ==
    IF in.kind = "reference"
    THEN Unwrap(from_data(FlatMapHash(EXAMPLE_MONSTERS), 0))
    ELSE Turned(Unwrap(from_data(Canvas(in.side, in.mons, in.noise), 0)), 0, in.turn)

InitScrub ==
    /\ input \in ScrubInputs
    /\ pc = "remove_monsters"
    /\ parsed_tiles = << >>
    /\ tiles = << >>
    /\ size = 0
    /\ tile_size = 0
    /\ corner = 0
    /\ outcome = "none"
    /\ tile = ImageOf(input)
    /\ before = ImageOf(input)
    /\ ret = << >>
    /\ step = 0
    /\ scanned = {}

NextScrub ==
    \/ RemoveMonstersIter
    \/ Roughness

SpecScrub == InitScrub /\ [][NextScrub]_vars


(***************************************************************************)
(* Tile::connect on its own: a tile of a puzzle in any orientation against *)
(* a tile of the same or of another puzzle, each call followed by the call *)
(* with the two tiles exchanged                                            *)
(***************************************************************************)

ConnectInputs ==
    UNION {{[kind |-> "connect", pz |-> p, a |-> a, i |-> i, qz |-> q, b |-> b] :
                a \in PuzzleTiles(p), i \in 0..7, b \in PuzzleTiles(q)} :
            p \in 1..Len(Puzzles), q \in 1..Len(Puzzles)}

\* the side lengths of the tiles connected to themselves, up to the 32 bits
\* of a fingerprint
EdgeSides == {1, 2, 3, 15, 16, 17, 31, 32}

EdgePatterns == {"corner", "full", "stripes", "scatter"}

\* cell (r, c), from 0, of the tile of side n drawn after pattern p
EdgeCell(p, n, r, c) ==
    CASE p = "corner"  -> r = 0 /\ c = 0
      [] p = "full"    -> TRUE
      [] p = "stripes" -> (r + c) % 2 = 1
      [] p = "scatter" -> (r * 7 + c * 3 + ((r * c) % 4)) % 5 < 2

EdgeTile(p, n) ==
    MkTile(n, n, Vec([k \in 1..(n * n) |-> EdgeCell(p, n, (k - 1) \div n, (k - 1) % n)]))

\* a tile connected to itself: connect returns its 8 fingerprints
EdgeInputs ==
    {[kind |-> "edge", n |-> n, pat |-> p, i |-> i] :
        n \in EdgeSides, p \in EdgePatterns, i \in 0..7}

\* self and other of the first call
ConnectSelf(in) ==
    IF in.kind = "edge" THEN Turned(EdgeTile(in.pat, in.n), 0, in.i)
    ELSE Turned(TileOfRows(Puzzles[in.pz][in.a]), 0, in.i)

ConnectOther(in) ==
    IF in.kind = "edge" THEN ConnectSelf(in)
    ELSE TileOfRows(Puzzles[in.qz][in.b])

InitConnect ==
    /\ \/ input \in ConnectInputs
       \/ input \in EdgeInputs
    /\ pc = "connect"
    /\ parsed_tiles = << >>
    /\ tiles = << >>
    /\ size = 0
    /\ tile_size = 0
    /\ corner = 0
    /\ outcome = "none"
    /\ tile = ConnectSelf(input)
    /\ before = ConnectOther(input)
    /\ ret = << >>
    /\ step = 0
    /\ scanned = << >>

\* tile.connect(&before)
CallConnect ==
    /\ pc = "connect"
    /\ ret' = connect(tile, before)
    /\ pc' = "connected"
    /\ UNCHANGED <<input, parsed_tiles, tiles, size, tile_size, corner, outcome, tile,
                   before, step, scanned>>

\* before.connect(&tile)
CallConnectBack ==
    /\ pc = "connected"
    /\ scanned' = connect(before, tile)
    /\ pc' = "connected_back"
    /\ UNCHANGED <<input, parsed_tiles, tiles, size, tile_size, corner, outcome, tile,
                   before, ret, step>>

NextConnect ==
    \/ CallConnect
    \/ CallConnectBack

SpecConnect == InitConnect /\ [][NextConnect]_vars

(***************************************************************************)
(* Tile::rotate_right and Tile::flip_horizontal on their own: up to        *)
(* MaxCalls calls in any order on a square tile; ret is the list of the    *)
(* calls made                                                              *)
(***************************************************************************)

\* the tile of flip_horizontal_test and rotate_right_test
TURN_TEST_DATA == << TRUE, FALSE, TRUE, TRUE, TRUE, FALSE, FALSE, FALSE, TRUE >>

MaxCalls == 4

MaxTurnSide == 4

TurnInputs ==
    {[kind |-> "canvas", side |-> n, noise |-> k, pz |-> 0, t |-> 0] :
        n \in 0..MaxTurnSide, k \in 0..MaxNoise}
    \cup {[kind |-> "fixture", side |-> 3, noise |-> 0, pz |-> 0, t |-> 0]}
    \cup UNION {{[kind |-> "puzzle", side |-> Len(Puzzles[p][1].rows), noise |-> 0,
                  pz |-> p, t |-> b] : b \in PuzzleTiles(p)} : p \in 1..Len(Puzzles)}

TurnTile(in) ==
    IF in.kind = "canvas" THEN Unwrap(from_data(Canvas(in.side, << >>, in.noise), 0))
    ELSE IF in.kind = "fixture" THEN MkTile(0, 3, TURN_TEST_DATA)
    ELSE TileOfRows(Puzzles[in.pz][in.t])

InitTurn ==
    /\ input \in TurnInputs
    /\ pc = "turn"
    /\ parsed_tiles = << >>
    /\ tiles = << >>
    /\ size = 0
    /\ tile_size = 0
    /\ corner = 0
    /\ outcome = "none"
    /\ tile = TurnTile(input)
    /\ before = TurnTile(input)
    /\ ret = << >>
    /\ step = 0
    /\ scanned = {}

\* rotate_right; src.chunks(0) panics for the empty tile
CallRotateRight ==
    /\ pc = "turn"
    /\ Len(ret) < MaxCalls
    /\ IF RotatePanics(tile)
       THEN /\ pc' = "aborted"
            /\ UNCHANGED <<tile, ret>>
       ELSE /\ tile' = rotate_right(tile)
            /\ ret' = Append(ret, "rotate_right")
            /\ UNCHANGED pc
    /\ UNCHANGED <<input, parsed_tiles, tiles, size, tile_size, corner, outcome, before,
                   step, scanned>>

\* flip_horizontal; data.chunks_mut(0) panics for the empty tile
CallFlipHorizontal ==
    /\ pc = "turn"
    /\ Len(ret) < MaxCalls
    /\ IF tile.size = 0
       THEN /\ pc' = "aborted"
            /\ UNCHANGED <<tile, ret>>
       ELSE /\ tile' = flip_horizontal(tile)
            /\ ret' = Append(ret, "flip_horizontal")
            /\ UNCHANGED pc
    /\ UNCHANGED <<input, parsed_tiles, tiles, size, tile_size, corner, outcome, before,
                   step, scanned>>

NextTurn ==
    \/ CallRotateRight
    \/ CallFlipHorizontal

SpecTurn == InitTurn /\ [][NextTurn]_vars

(***************************************************************************)
(* Tile::parse on its own: the rows of one tile, well formed or not, read  *)
(* from the line after the header on                                       *)
(***************************************************************************)

\* the border cells of a 4x4 tile, row by row
BORDER_4 == << 1, 2, 3, 4, 5, 8, 9, 12, 13, 14, 15, 16 >>

\* the 4x4 tile whose border cells are the bits of m, inner cells unset
Block4(m) ==
    MkTile(0, 4,
        Vec([i \in 1..16 |->
            \E k \in 1..Len(BORDER_4) :
                BORDER_4[k] = i /\ (m \div (2 ^ (k - 1))) % 2 = 1]))

\* how a block of rows is spoilt: a row a cell short, a row a cell long, a
\* cell moved from a row to the next, the last row missing before the end of
\* input, before a blank line, before the next header, two rows missing
\* before a blank line, an empty first row, a first row of 33 cells, a
\* character that is neither '.' nor '#'
Variants ==
    { "drop_cell", "add_cell", "move_cell", "short_eof", "short_blank", "short_header",
      "two_short_blank", "empty_first", "wide", "bad_char" }

ParseInputs ==
    {[kind |-> "block4", m |-> m, pz |-> 0, t |-> 0, variant |-> "block", k |-> 0] :
        m \in 0..(2 ^ Len(BORDER_4) - 1)}
    \cup UNION {{[kind |-> "puzzle", m |-> 0, pz |-> p, t |-> b, variant |-> v, k |-> k] :
                    b \in PuzzleTiles(p), v \in Variants \cup {"block"},
                    k \in 2..Len(Puzzles[p][1].rows)} :
                p \in 1..Len(Puzzles)}

BlockRows(in) ==
    IF in.kind = "block4" THEN RenderRows(Block4(in.m)) ELSE Puzzles[in.pz][in.t].rows

\* the lines Tile::parse is given
ParseLines(in) ==
    LET rows == BlockRows(in)
        n    == Len(rows)
        k    == in.k
        nxt  == IF k = n THEN 2 ELSE k + 1
        v    == in.variant
    IN  IF v = "drop_cell" THEN [rows EXCEPT ![k] = SubSeq(@, 1, n - 1)]
        ELSE IF v = "add_cell" THEN [rows EXCEPT ![k] = Append(@, ".")]
        ELSE IF v = "move_cell"
        THEN [rows EXCEPT ![k] = SubSeq(@, 1, n - 1), ![nxt] = Append(@, rows[k][n])]
        ELSE IF v = "short_eof" THEN SubSeq(rows, 1, n - 1)
        ELSE IF v = "short_blank" THEN SubSeq(rows, 1, n - 1) \o << << >> >>
        ELSE IF v = "short_header"
        THEN SubSeq(rows, 1, n - 1) \o << TILE_PREFIX \o << "7", ":" >> >>
        ELSE IF v = "two_short_blank" THEN SubSeq(rows, 1, n - 2) \o << << >> >>
        ELSE IF v = "empty_first" THEN << << >> >> \o rows
        ELSE IF v = "wide" THEN << Vec([i \in 1..33 |-> "."]) >> \o rows
        ELSE IF v = "bad_char" THEN [rows EXCEPT ![k][1] = "x"]
        ELSE rows

InitParse ==
    /\ input \in ParseInputs
    /\ pc = "tile_parse"
    /\ parsed_tiles = << >>
    /\ tiles = << >>
    /\ size = 0
    /\ tile_size = 0
    /\ corner = 0
    /\ outcome = "none"
    /\ tile = NoTile
    /\ before = NoTile
    /\ ret = << >>
    /\ step = 0
    /\ scanned = {}

\* Tile::parse(&mut lines, id): outcome is "Ok" or the error, tile the tile
\* returned
CallTileParse ==
    /\ pc = "tile_parse"
    /\ LET r == Tile_parse(ParseLines(input), 1, 7)
       IN  /\ outcome' = IF r.err = "" THEN "Ok" ELSE r.err
           /\ tile' = r.tile
    /\ pc' = "tile_parsed"
    /\ UNCHANGED <<input, parsed_tiles, tiles, size, tile_size, corner, before, ret,
                   step, scanned>>

NextParse == CallTileParse

SpecParse == InitParse /\ [][NextParse]_vars

(***************************************************************************)
(* Tile::orient on its own: a tile of PUZZLE_A in any orientation, and     *)
(* constraints read off a tile (of the puzzle, or the foreign one) in any  *)
(* orientation                                                             *)
(***************************************************************************)

\* the fields a call constrains: left, top, left and top (build_grid),
\* right and bottom (find_corner), all four, none
Masks ==
    { {}, {"left"}, {"top"}, {"left", "top"}, {"right", "bottom"},
      {"left", "top", "right", "bottom"} }

\* tile b of PUZZLE_A, the foreign tile for b past its end
TargetTile(b) ==
    TileOfRows(IF b > Len(PUZZLE_A) THEN FOREIGN_A ELSE PUZZLE_A[b])

\* the constraints that hold the edges of t named in mask
ConstraintsFrom(t, mask) ==
    [left   |-> IF "left" \in mask THEN Some(col_fwd(t, "Left")) ELSE None,
     right  |-> IF "right" \in mask THEN Some(col_fwd(t, "Right")) ELSE None,
     top    |-> IF "top" \in mask THEN Some(row_fwd(t, "Top")) ELSE None,
     bottom |-> IF "bottom" \in mask THEN Some(row_fwd(t, "Bottom")) ELSE None]

OrientInputs ==
    {[kind |-> "orient", a |-> a, i |-> i, b |-> b, j |-> j, mask |-> m] :
        a \in 1..Len(PUZZLE_A), i \in 0..7, b \in 1..(Len(PUZZLE_A) + 1), j \in 0..7,
        m \in Masks}

\* the blocks of rows Tile::parse accepts: whole, a row a cell short, a row
\* a cell long, a cell moved to the next row, a blank line for the last row
ParsedBlocks ==
    {b \in {[kind |-> "puzzle", m |-> 0, pz |-> 1, t |-> t, variant |-> v, k |-> k] :
                t \in PuzzleTiles(1),
                v \in {"block", "drop_cell", "add_cell", "move_cell", "short_blank"},
                k \in {2, Len(PUZZLE_A[1].rows)}} :
        Tile_parse(ParseLines(b), 1, 7).err = ""}

ParsedTile(in) == Tile_parse(ParseLines(in.block), 1, 7).tile

\* a tile as Tile::parse returned it, turned i times, not at all where
\* rotate_right aborts; the constraints are read off the same tile turned j
\* times, off the tile of the whole block where rotate_right aborts
ParsedOrientInputs ==
    {in \in {[kind |-> "parsed", block |-> b, i |-> i, j |-> j, mask |-> m] :
                b \in ParsedBlocks, i \in 0..7, j \in {0, 5}, m \in Masks \ {{}}} :
        RotatePanics(ParsedTile(in)) => in.i = 0}

OrientTile(in) ==
    IF in.kind = "parsed" THEN Turned(ParsedTile(in), 0, in.i)
    ELSE Turned(TargetTile(in.a), 0, in.i)

OrientConstraints(in) ==
    IF in.kind = "parsed"
    THEN LET t == IF RotatePanics(ParsedTile(in))
                  THEN TileOfRows(Puzzles[in.block.pz][in.block.t])
                  ELSE ParsedTile(in)
         IN  ConstraintsFrom(Turned(t, 0, in.j), in.mask)
    ELSE ConstraintsFrom(Turned(TargetTile(in.b), 0, in.j), in.mask)

InitTile ==
    /\ input \in OrientInputs
    /\ pc = "orient"
    /\ parsed_tiles = << >>
    /\ tiles = << >>
    /\ size = 0
    /\ tile_size = 0
    /\ corner = 0
    /\ outcome = "none"
    /\ tile = OrientTile(input)
    /\ before = OrientTile(input)
    /\ ret = << >>
    /\ step = 0
    /\ scanned = {}

CallOrient ==
    /\ pc = "orient"
    /\ LET r == orient(tile, OrientConstraints(input))
       IN  /\ tile' = r.tile
           /\ ret' = r.ok
           /\ pc' = IF r.panic THEN "aborted" ELSE "oriented"
    /\ UNCHANGED <<input, parsed_tiles, tiles, size, tile_size, corner, outcome, before,
                   step, scanned>>

\* orient called again with the same constraints, right after a call that
\* returned true; before is the tile as the first call left it
CallOrientAgain ==
    /\ pc = "oriented"
    /\ ret = TRUE
    /\ LET r == orient(tile, OrientConstraints(input))
       IN  /\ tile' = r.tile
           /\ ret' = r.ok
           /\ pc' = IF r.panic THEN "aborted" ELSE "oriented_again"
    /\ before' = tile
    /\ UNCHANGED <<input, parsed_tiles, tiles, size, tile_size, corner, outcome, step,
                   scanned>>

NextTile ==
    \/ CallOrient
    \/ CallOrientAgain

SpecTile == InitTile /\ [][NextTile]_vars

\* Tile::orient on the tiles Tile::parse returns
InitParsedTile ==
    /\ input \in ParsedOrientInputs
    /\ pc = "orient"
    /\ parsed_tiles = << >>
    /\ tiles = << >>
    /\ size = 0
    /\ tile_size = 0
    /\ corner = 0
    /\ outcome = "none"
    /\ tile = OrientTile(input)
    /\ before = OrientTile(input)
    /\ ret = << >>
    /\ step = 0
    /\ scanned = {}

SpecParsedTile == InitParsedTile /\ [][NextTile]_vars

(***************************************************************************)
(* The tile count: sqrt_exact on its own, and Grid::parse on inputs of 0,  *)
(* 1, 3, 4, 8 and 9 tiles                                                  *)
(***************************************************************************)

MaxCount == 150

SqrtInputs == {[kind |-> "sqrt", n |-> n] : n \in 0..MaxCount}

InitSqrt ==
    /\ input \in SqrtInputs
    /\ pc = "sqrt_exact"
    /\ parsed_tiles = << >>
    /\ tiles = << >>
    /\ size = 0
    /\ tile_size = 0
    /\ corner = 0
    /\ outcome = "none"
    /\ tile = NoTile
    /\ before = NoTile
    /\ ret = << >>
    /\ step = 0
    /\ scanned = {}

CallSqrtExact ==
    /\ pc = "sqrt_exact"
    /\ ret' = sqrt_exact(input.n)
    /\ pc' = "sqrt_done"
    /\ UNCHANGED <<input, parsed_tiles, tiles, size, tile_size, corner, outcome, tile,
                   before, step, scanned>>

\* the inputs with a tile missing, one tile, no tile, and the puzzles as
\* given
CountInputs == BrokenInputs \cup {in \in ValidInputs : in.shift = 0 /\ in.o = 0 /\ in.seed = 0}

InitCount ==
    \/ Init /\ input \in CountInputs
    \/ InitSqrt

NextCount ==
    \/ Next
    \/ CallSqrtExact

SpecCount == InitCount /\ [][NextCount]_vars

\* an iteration of the fill loop can be taken: BuildGridStep is enabled, and
\* every step of it changes the pool or pc
FillStepEnabled == pc = "fill" /\ parsed_tiles # << >>

\* build_grid runs to its end: the program is sequential, and an iteration
\* of the fill loop or its exit is taken whenever it can be. The second
\* condition is WF_vars(BuildGridStep) with ENABLED <<BuildGridStep>>_vars
\* written out as FillStepEnabled
FairCount ==
    /\ SpecCount
    /\ WF_vars(BuildGridDone)
    /\ ([]<>(~FillStepEnabled) \/ []<><<BuildGridStep>>_vars)

(***************************************************************************)
(* Assembly: what the specification says of Grid::parse, corner_ids and    *)
(* merge_tiles                                                             *)
(***************************************************************************)

\* the ids of the tiles of the input, in the order of the input
ScenarioIds(in) ==
    LET ord == ScenarioOrder(in)
    IN  [k \in 1..Len(ord) |->
            IF ord[k] = in.swap THEN Foreign[in.pz].id
            ELSE PuzzleOf(in)[ord[k]].id + IdOffset(in)]

\* how many tiles of ts have the id
CountId(ts, id) == Cardinality({m \in 1..Len(ts) : ts[m].id = id})

\* Grid::parse has taken the tiles of the input and is building or has built
Building == pc \in {"find_corner", "build_grid", "fill"} \/ outcome = "Ok"

\* C1: from the parse of the tiles on, every input tile is in exactly one of
\* the pool and the placed list, and a grid returned with Ok holds size*size
\* tiles, each input id once
PoolAndPlacedPartition ==
    /\ Building =>
          LET all == tiles \o parsed_tiles
              ids == ScenarioIds(input)
          IN  /\ Len(all) = Len(ids)
              /\ \A k \in 1..Len(ids) : CountId(all, ids[k]) = 1
    /\ outcome = "Ok" =>
          /\ Len(tiles) = size * size
          /\ parsed_tiles = << >>
          /\ \A k \in 1..Len(tiles) : CountId(tiles, tiles[k].id) = 1

\* a 3x3 grid half built: four tiles placed, five in the pool
HalfBuilt == pc = "fill" /\ size = 3 /\ Len(tiles) = 4 /\ Len(parsed_tiles) = 5

\* the placed tile at idx (from 0) agrees with its left and upper neighbours
AgreesWithPlaced(idx) ==
    /\ idx % size # 0 =>
          col_fwd(tiles[idx + 1], "Left") = col_fwd(tiles[idx], "Right")
    /\ idx >= size =>
          row_fwd(tiles[idx + 1], "Top") = row_fwd(tiles[idx - size + 1], "Bottom")

PlacedAgree == size > 0 => \A idx \in 0..(Len(tiles) - 1) : AgreesWithPlaced(idx)

PlacedStay == \A k \in 1..Len(tiles) : k <= Len(tiles') /\ tiles'[k] = tiles[k]

\* C2: in row-major order the right border of a placed tile equals the left
\* border of the next tile of its row and its bottom border the top border
\* of the tile below, and a placed tile is never turned again
AdjacentBordersAgree == [](PlacedAgree) /\ [][PlacedStay]_vars

\* a 3x3 grid returned with Ok
Built3x3 == outcome = "Ok" /\ pc = "corner_ids" /\ size = 3 /\ Len(tiles) = 9

\* the tiles other than tiles[k] that connect() joins to it
Neighbours(k) ==
    {m \in 1..Len(tiles) : m # k /\ connect(tiles[k], tiles[m]) # << >>}

\* positions (from 1) of the placed list next to each other in the grid
GridAdjacent(k, m) ==
    LET r1 == (k - 1) \div size
        c1 == (k - 1) % size
        r2 == (m - 1) \div size
        c2 == (m - 1) % size
    IN  \/ r1 = r2 /\ (c1 - c2 = 1 \/ c2 - c1 = 1)
        \/ c1 = c2 /\ (r1 - r2 = 1 \/ r2 - r1 = 1)

\* no border value is shared by tiles that are not next to each other
WellPosed ==
    \A k, m \in 1..Len(tiles) :
        (m # k /\ connect(tiles[k], tiles[m]) # << >>) => GridAdjacent(k, m)

CornerPositions ==
    << 1, size, size * (size - 1) + 1, size * size >>

CornersReturned == outcome = "Ok" /\ pc = "merge_tiles"

CornersAtPositions ==
    \A k \in 1..4 : ret[k] = tiles[CornerPositions[k]].id

CornersHaveTwoNeighbours ==
    \A k \in 1..4 :
        \E m \in 1..Len(tiles) :
            tiles[m].id = ret[k] /\ Cardinality(Neighbours(m)) = 2

\* C3 as stated: corner_ids returns the ids at (0,0), (0,size-1),
\* (size-1,0), (size-1,size-1), each the id of a tile with exactly two
\* adjacency-compatible neighbours, whichever corner was the origin
CornerIdsAreCorners ==
    CornersReturned => CornersAtPositions /\ CornersHaveTwoNeighbours

\* C3 for well-posed puzzles: corner_ids returns the ids at the four corner
\* positions, and when no border value is shared by tiles that are not
\* adjacent in the grid each is the id of a tile with exactly two
\* adjacency-compatible neighbours, whichever corner was the origin
CornerIdsAreCornersWellPosed ==
    CornersReturned =>
        /\ CornersAtPositions
        /\ WellPosed => CornersHaveTwoNeighbours

\* corner ids returned for a well-posed 3x3 grid whose origin is not the
\* first tile of the input
CornersOfWellPosed ==
    CornersReturned /\ size = 3 /\ WellPosed /\ tiles[1].id # ScenarioIds(input)[1]

Merged == outcome = "Ok" /\ pc = "remove_monsters" /\ step = 0

\* the merged tile has id 0 and side size*(tile_size-2), and its cell
\* (gr*inner + r - 1, gc*inner + c - 1) is cell (r, c) of the tile at grid
\* position (gr, gc), for r and c in 1..tile_size-2; these are all its
\* cells, so no border cell of a tile is in it
MergedCells ==
    Merged =>
        LET inner == tile_size - 2
            side  == size * inner
        IN  /\ tile.id = 0
            /\ tile.size = side
            /\ Len(tile.data) = side * side
            /\ \A gr \in 0..(size - 1), gc \in 0..(size - 1), r \in 1..inner, c \in 1..inner :
                  tile.data[(gr * inner + r - 1) * side + gc * inner + (c - 1) + 1]
                      = tiles[gr * size + gc + 1].data[r * tile_size + c + 1]

\* the call of merge_tiles returns a tile
MergeReturns == pc = "merge_tiles" => pc' = "remove_monsters"

\* C4: merge_tiles returns a tile, of id 0 and side size*(tile_size-2), whose
\* cells are the cells (r, c) of the placed tiles for r and c in
\* 1..tile_size-2, each at row gr*(tile_size-2) + r - 1 and column
\* gc*(tile_size-2) + c - 1, and no border cell of a tile
MergeReturnsInnerCells == [][MergeReturns]_vars /\ [](MergedCells)

\* the scenario with every tile as the puzzle gives it
AsGiven(in) == [in EXCEPT !.o = 0, !.seed = 0]

\* C5: for a valid tile set in a fixed order, the merged bitmap does not
\* depend on how the tiles of the input are turned
MergedWhateverTheTurns ==
    Merged =>
        LET ref == Grid_parse(InputLines(AsGiven(input)))
            m   == IF ref.err = "" THEN merge_tiles(ref.grid) ELSE None
        IN  /\ IsSome(m)
            /\ Unwrap(m).data = tile.data

\* merged from an input whose tiles are turned, the origin flipped
MergedFromTurned ==
    /\ Merged
    /\ input.seed > 0
    /\ input.o > 3
    /\ tiles[1].id = Puzzles[input.pz][input.t].id

(***************************************************************************)
(* Pattern scrubbing: what the specification says of remove_monsters       *)
(***************************************************************************)

\* every top-left position <<y, x>> of a pattern-sized window of t
AllWindows(t) ==
    {w \in (0..(t.size - MONSTER_HEIGHT)) \X (0..(t.size - MONSTER_WIDTH)) : TRUE}

\* the windows of t where every pattern '#' lies on a set cell
Occurrences(t) == {w \in AllWindows(t) : HasMonster(t, w[1], w[2])}

\* the orientations, in the order examined, that hold an occurrence
MatchingTurns(t) == {j \in 0..7 : Occurrences(Turned(t, 0, j)) # {}}

\* the set cells of t under no '#' of an occurrence
Uncovered(t) ==
    {i \in 1..Len(t.data) :
        /\ t.data[i]
        /\ ~\E w \in Occurrences(t) :
                MonsterCell(w, (i - 1) \div t.size, (i - 1) % t.size)}

\* the roughness the first orientation with an occurrence leaves
RoughnessOfFirstMatch(t) ==
    IF MatchingTurns(t) = {} THEN roughness(t)
    ELSE LET j == CHOOSE k \in MatchingTurns(t) : \A m \in MatchingTurns(t) : k <= m
         IN  Cardinality(Uncovered(Turned(t, 0, j)))

\* at least one orientation has been scanned to its end
ScanDone == pc \in {"monsters_removed", "finished"} \/ (pc = "remove_monsters" /\ step > 0)

\* C6: after remove_monsters, roughness() is the number of set cells under
\* no '#' of an occurrence of the pattern in the first orientation that has
\* one, occurrences taken on the image before any marking; 273 for the
\* 24x24 fixture
RoughnessCountsUncovered ==
    pc = "finished" =>
        /\ ret = RoughnessOfFirstMatch(before)
        /\ input.kind = "reference" => ret = 273

\* C7: in each orientation it examines, remove_monsters tests every
\* pattern-sized window, those touching the bottom row and the rightmost
\* column included
EveryWindowTested == ScanDone => scanned = AllWindows(tile)

\* C8: if no orientation of the tile holds a match, remove_monsters is a
\* no-op: the tile is left as it was and roughness() is the count of set
\* cells before the call
NoMatchIsNoOp ==
    (pc \in {"monsters_removed", "finished"} /\ MatchingTurns(before) = {}) =>
        /\ tile = before
        /\ pc = "finished" => ret = roughness(before)

\* C9: remove_monsters has no failure outcome, whatever the side of the
\* square tile: it never aborts
RemoveMonstersNeverAborts == pc # "aborted"

(***************************************************************************)
(* Tile::orient: what the specification says                               *)
(***************************************************************************)

\* C10: when orient returns false, the tile's data is what it was before
\* the call
FailedOrientRestoresData == (pc = "oriented" /\ ret = FALSE) => tile.data = before.data

\* where the cell at (r, c) was before k clockwise quarter turns of a
\* square of side s
RECURSIVE TurnedFrom(_, _, _, _)
TurnedFrom(s, k, r, c) ==
    IF k = 0 THEN << r, c >> ELSE TurnedFrom(s, k - 1, s - 1 - c, r)

\* the j-th dihedral image of t: j quarter turns for j < 4, the mirror image
\* and its j - 4 quarter turns from 4 on
DihedralImage(t, j) ==
    LET s == t.size
    IN  [t EXCEPT !.data =
            Vec([i \in 1..(s * s) |->
                LET p == TurnedFrom(s, j % 4, (i - 1) \div s, (i - 1) % s)
                IN  IF j < 4 THEN t.data[p[1] * s + p[2] + 1]
                    ELSE t.data[p[1] * s + (s - 1 - p[2]) + 1]])]

\* every constraint field that is set equals the forward fingerprint
Satisfies(t, c) ==
    /\ IsSome(c.left) => Unwrap(c.left) = col_fwd(t, "Left")
    /\ IsSome(c.top) => Unwrap(c.top) = row_fwd(t, "Top")
    /\ IsSome(c.right) => Unwrap(c.right) = col_fwd(t, "Right")
    /\ IsSome(c.bottom) => Unwrap(c.bottom) = row_fwd(t, "Bottom")

SatisfyingImages(t, c) == {j \in 0..7 : Satisfies(DihedralImage(t, j), c)}

\* C11: orient returns true exactly when one of the 8 dihedral images of the
\* tile satisfies every constraint that is set, and then leaves the tile in
\* the first such image, id and size unchanged
OrientFindsFirstImage ==
    pc = "oriented" =>
        LET m == SatisfyingImages(before, OrientConstraints(input))
        IN  /\ ret = (m # {})
            /\ ret => \E j \in m :
                        /\ \A k \in m : j <= k
                        /\ tile = DihedralImage(before, j)

\* orient returned true on a mirror image, constrained on left and top
OrientedToMirrorImage ==
    /\ pc = "oriented"
    /\ ret = TRUE
    /\ input.mask = {"left", "top"}
    /\ SatisfyingImages(before, OrientConstraints(input)) = {6}
    /\ tile # before

\* C12: orient called again with the same constraints right after it
\* returned true returns true and leaves the data as it was
OrientAgainChangesNothing ==
    pc = "oriented_again" => (ret = TRUE /\ tile.data = before.data)

\* the second call made on a tile the first call had to turn
OrientedTwice ==
    /\ pc = "oriented_again"
    /\ input.mask = {"right", "bottom"}
    /\ tile # OrientTile(input)

(***************************************************************************)
(* Tile::rotate_right, Tile::flip_horizontal: what the specification says  *)
(***************************************************************************)

\* the tile after the first n of the calls made
RECURSIVE TileAfter(_)
TileAfter(n) ==
    IF n = 0 THEN before
    ELSE IF ret[n] = "rotate_right" THEN rotate_right(TileAfter(n - 1))
    ELSE flip_horizontal(TileAfter(n - 1))

\* the last n calls made were all op
LastCallsAre(op, n) ==
    /\ Len(ret) >= n
    /\ \A k \in (Len(ret) - n + 1)..Len(ret) : ret[k] = op

\* C13: four rotate_right calls in a row restore the data they started
\* from, and so do two flip_horizontal calls in a row
TurnsRestoreData ==
    pc = "turn" =>
        /\ LastCallsAre("rotate_right", 4) => tile.data = TileAfter(Len(ret) - 4).data
        /\ LastCallsAre("flip_horizontal", 2) => tile.data = TileAfter(Len(ret) - 2).data

\* a puzzle tile turned four times, which one turn changes
TurnedFourTimes ==
    /\ pc = "turn"
    /\ input.kind = "puzzle"
    /\ ret = << "rotate_right", "rotate_right", "rotate_right", "rotate_right" >>
    /\ TileAfter(1) # before

\* the call keeps size and id, and the number of set cells
KeepsTile ==
    /\ tile'.size = tile.size
    /\ tile'.id = tile.id
    /\ Len(tile'.data) = Len(tile.data)
    /\ roughness(tile') = roughness(tile)

RotateMovesCells ==
    ret' = Append(ret, "rotate_right") =>
        /\ KeepsTile
        /\ \A y, x \in 0..(tile.size - 1) :
              tile'.data[x * tile.size + (tile.size - 1 - y) + 1]
                  = tile.data[y * tile.size + x + 1]

FlipMovesCells ==
    ret' = Append(ret, "flip_horizontal") =>
        /\ KeepsTile
        /\ \A y, x \in 0..(tile.size - 1) :
              tile'.data[y * tile.size + (tile.size - 1 - x) + 1]
                  = tile.data[y * tile.size + x + 1]

\* C14: rotate_right moves the cell at (y, x) to (x, size-1-y) and
\* flip_horizontal moves it to (y, size-1-x); both keep size, id and the
\* number of set cells
TurnsMoveCells == [][RotateMovesCells /\ FlipMovesCells]_vars

\* rotate_right_test: the tile of the test after one rotate_right
RotateTestExpected ==
    /\ pc = "turn"
    /\ input.kind = "fixture"
    /\ ret = << "rotate_right" >>
    /\ tile.data = << FALSE, TRUE, TRUE, FALSE, TRUE, FALSE, TRUE, FALSE, TRUE >>

(***************************************************************************)
(* Tile::parse: what the specification says                                *)
(***************************************************************************)

\* the lines start with a size-by-size block, size the length of the first
\* line and between 1 and 32
ProperBlock(lines) ==
    /\ Len(lines) >= 1
    /\ LET n == Len(lines[1])
       IN  /\ n \in 1..32
           /\ Len(lines) >= n
           /\ \A k \in 1..n : Len(lines[k]) = n

\* C15: Tile::parse returns an error whenever the rows do not form a
\* size-by-size block: an empty or too long first row, a later row of
\* another length, fewer rows than columns, also before a blank line
RejectsImproperBlocks ==
    (pc = "tile_parsed" /\ ~ProperBlock(ParseLines(input))) => outcome # "Ok"

\* the 8 readings of the border of a proper block, as the cells read:
\* top, bottom, left, right, and each backwards
BorderReadings(lines) ==
    LET n      == Len(lines[1])
        top    == lines[1]
        bottom == lines[n]
        left   == Vec([k \in 1..n |-> lines[k][1]])
        right  == Vec([k \in 1..n |-> lines[k][n]])
    IN  << top, bottom, left, right,
           Reverse(top), Reverse(bottom), Reverse(left), Reverse(right) >>

TwoReadingsEqual(lines) ==
    LET b == BorderReadings(lines)
    IN  \E i, j \in 1..Len(b) : i # j /\ b[i] = b[j]

\* the 8 fingerprints of a tile
Fingerprints(t) ==
    << row_fwd(t, "Top"), row_rev(t, "Top"), row_fwd(t, "Bottom"), row_rev(t, "Bottom"),
       col_fwd(t, "Left"), col_rev(t, "Left"), col_fwd(t, "Right"), col_rev(t, "Right") >>

\* C16: given a size-by-size block of '.' and '#', Tile::parse returns
\* 'Ambiguous edge values' exactly when two of the 8 readings of the border
\* are equal (an edge that reads the same both ways, two equal edges), and
\* every tile it accepts has 8 pairwise distinct fingerprints
AmbiguousIffReadingsEqual ==
    pc = "tile_parsed" =>
        LET lines == ParseLines(input)
        IN  /\ (ProperBlock(lines) /\ \A k \in 1..Len(lines) : RowKnown(lines[k])) =>
                  /\ (outcome = "Ambiguous edge values") = TwoReadingsEqual(lines)
                  /\ outcome \in {"Ok", "Ambiguous edge values"}
            /\ outcome = "Ok" =>
                  \A i, j \in 1..8 : i # j => Fingerprints(tile)[i] # Fingerprints(tile)[j]

\* a 4x4 tile rejected whose top row reads the same both ways, its four
\* edges read forwards all different
PalindromeRejected ==
    /\ pc = "tile_parsed"
    /\ input.kind = "block4"
    /\ outcome = "Ambiguous edge values"
    /\ LET b == BorderReadings(ParseLines(input))
       IN  /\ b[1] = b[5]
           /\ \A i, j \in 1..4 : i # j => b[i] # b[j]

(***************************************************************************)
(* The Tile invariant                                                      *)
(***************************************************************************)

SquareData(t) == Len(t.data) = t.size * t.size

\* C17: every tile satisfies data.len() == size*size: the tiles returned by
\* Tile::parse, parse_tiles, from_data and merge_tiles, and the tiles that
\* rotate_right, flip_horizontal, orient and remove_monsters leave
EveryTileSquare ==
    /\ SquareData(tile)
    /\ \A k \in 1..Len(parsed_tiles) : SquareData(parsed_tiles[k])
    /\ \A k \in 1..Len(tiles) : SquareData(tiles[k])

(***************************************************************************)
(* Grid::parse: the errors the specification names                         *)
(***************************************************************************)

\* the number of tiles of a grid input
TileCount(in) == Len(ScenarioOrder(in))

IsSquareNumber(n) == \E r \in 0..n : r * r = n

\* the errors of parse_tiles
TileErrors ==
    { "Could not parse id", "Missing tile data", "Empty tile",
      "Tiles larger than 32x32 not supported", "Unknown character", "Incomplete tile",
      "Ambiguous edge values", "Inconsistent tile sizes" }

\* parse_tiles has returned the tiles of the input, and Grid::parse has
\* returned or aborted, or is past its sqrt_exact
PastCount == input.kind # "sqrt" /\ pc # "parse" /\ outcome \notin TileErrors

\* C18: Grid::parse returns 'Non-square grid' whenever the number of parsed
\* tiles is not a perfect square and otherwise takes its exact square root
\* as size; sqrt_exact(n) is Some(r) exactly when r*r = n and None for every
\* other n
SquareCountOrError ==
    /\ pc = "sqrt_done" =>
          /\ IsSome(ret) = IsSquareNumber(input.n)
          /\ IsSome(ret) => Unwrap(ret) * Unwrap(ret) = input.n
    /\ PastCount =>
          /\ (outcome = "Non-square grid") = ~IsSquareNumber(TileCount(input))
          /\ outcome # "Non-square grid" => size * size = TileCount(input)

\* sqrt_exact has found the root of a square above the tile counts
RootOfEightyOne == pc = "sqrt_done" /\ input.n = 81 /\ ret = Some(9)

\* one tile taken from a valid set of 9
OneOfNineDropped ==
    input.kind = "grid" /\ input.drop # 0 /\ Len(Puzzles[input.pz]) = 9 /\ pc # "parse"

\* C19 as stated: removing one tile from a valid 9-tile set makes
\* Grid::parse fail with 'Ambiguous grid edge constraints'
DroppedTileIsAmbiguous ==
    OneOfNineDropped => outcome = "Ambiguous grid edge constraints"

\* C19, the error as returned: removing one tile from a valid 9-tile set
\* makes Grid::parse fail with 'Non-square grid' before any tile is placed;
\* 'Ambiguous grid edge constraints' is returned only for a square number
\* of tiles, when no tile left in the pool fits the next position
DroppedTileIsNonSquare ==
    /\ OneOfNineDropped =>
          /\ outcome = "Non-square grid"
          /\ pc = "done"
          /\ tiles = << >>
    /\ (input.kind # "sqrt" /\ outcome = "Ambiguous grid edge constraints") =>
          /\ IsSquareNumber(TileCount(input))
          /\ parsed_tiles # << >>
          /\ ~FillStep(parsed_tiles, tiles, size).success

\* the middle tile of the 3x3 puzzle dropped
MiddleTileDropped ==
    /\ OneOfNineDropped
    /\ Puzzles[input.pz][input.drop].id = 22
    /\ outcome = "Non-square grid"

\* C20: every parse or structural failure of Grid::parse is returned as an
\* Err value, never an abort, also for an input without tiles and for an
\* input of one tile
GridParseNeverAborts == input.kind # "sqrt" => outcome # "panic"

\* no tile of the pool has an image that satisfies the constraints of the
\* next grid position
NoneFits ==
    \A k \in 1..Len(parsed_tiles) :
        SatisfyingImages(parsed_tiles[k], FillConstraints(tiles, size)) = {}

\* the fill loop is at a position no tile of the pool fits
Stuck == pc = "fill" /\ parsed_tiles # << >> /\ NoneFits

StuckFails ==
    Stuck =>
        /\ outcome' = "Ambiguous grid edge constraints"
        /\ pc' = "done"
        /\ tiles' = tiles

\* the error is final: nothing is returned or computed from the tiles placed
AmbiguousIsFinal ==
    (input.kind # "sqrt" /\ outcome = "Ambiguous grid edge constraints") =>
        /\ pc = "done"
        /\ ret = << >>
        /\ tile = NoTile

\* C21: when no tile left in the pool can be oriented to satisfy the
\* constraints of the next position, Grid::parse returns 'Ambiguous grid
\* edge constraints' at once: no grid, no retry, no placement undone
StuckIsAmbiguous == [](AmbiguousIsFinal) /\ [][StuckFails]_vars

Values(s) == {s[k] : k \in 1..Len(s)}

\* C22: a.connect(b) and b.connect(a) hold the same set of values, the
\* fingerprints found both among the 8 of a and among the 8 of b; so one is
\* non-empty exactly when the other is
ConnectIsSymmetric ==
    pc = "connected_back" =>
        /\ Values(ret) = Values(scanned)
        /\ Values(ret) = Values(Fingerprints(tile)) \cap Values(Fingerprints(before))
        /\ (ret # << >>) <=> (scanned # << >>)

\* two distinct tiles that share a border, connected both ways round
ConnectedBothWays ==
    /\ pc = "connected_back"
    /\ tile.id # before.id
    /\ ret # << >>
    /\ scanned # << >>
    /\ ret # scanned


\* the cells of the four edges in the order connect reads them: top and
\* bottom left to right, left and right top to bottom
EdgeCells(t) ==
    LET n == t.size
    IN  << [k \in 1..n |-> t.data[k]],
           [k \in 1..n |-> t.data[(n - 1) * n + k]],
           [k \in 1..n |-> t.data[(k - 1) * n + 1]],
           [k \in 1..n |-> t.data[(k - 1) * n + n]] >>

\* the part of the sum of bit k times 2^Exp(k) that falls in 16-bit half h
RECURSIVE HalfSum(_, _, _, _)
HalfSum(cells, Exp(_), h, k) ==
    IF k > Len(cells) THEN 0
    ELSE (IF cells[k] /\ Exp(k) >= 16 * h /\ Exp(k) < 16 * h + 16
          THEN 2 ^ (Exp(k) - 16 * h) ELSE 0)
         + HalfSum(cells, Exp, h, k + 1)

\* sum of bit i times 2^(size - 1 - i), i from 0
ForwardSum(cells) ==
    LET Exp(k) == Len(cells) - k
    IN  U32(HalfSum(cells, Exp, 1, 1), HalfSum(cells, Exp, 0, 1))

\* sum of bit i times 2^i, i from 0
ReverseSum(cells) ==
    LET Exp(k) == k - 1
    IN  U32(HalfSum(cells, Exp, 1, 1), HalfSum(cells, Exp, 0, 1))

\* C23: for a tile of side up to 32 the forward fingerprint of every edge is
\* the sum of bit i times 2^(size-1-i) and the reverse one the sum of bit i
\* times 2^i, no bit lost at size 32; so two edges have equal fingerprints
\* only if their cells are equal
FingerprintsAreBitSums ==
    (pc = "connected" /\ input.kind = "edge" /\ tile.size <= 32) =>
        LET cells == EdgeCells(tile)
        IN  /\ \A e \in 1..4 :
                  /\ ret[e] = ForwardSum(cells[e])
                  /\ ret[e + 4] = ReverseSum(cells[e])
            /\ \A e, f \in 1..4 :
                  /\ ret[e] = ret[f] => cells[e] = cells[f]
                  /\ ret[e + 4] = ret[f + 4] => cells[e] = cells[f]

\* a tile of side 32 whose top edge sets bit 31 of its forward fingerprint
\* and bit 0 of its reverse one
TopBitUsed ==
    /\ pc = "connected"
    /\ input.kind = "edge"
    /\ tile.size = 32
    /\ Len(ret) = 8
    /\ ret[1] = U32(32768, 0)
    /\ ret[5] = U32(0, 1)


\* the tiles of pt, other than the one at place k, that share a fingerprint
\* with it
Sharing(pt, k) ==
    {m \in 1..Len(pt) :
        /\ m # k
        /\ Values(Fingerprints(pt[k])) \cap Values(Fingerprints(pt[m])) # {}}

\* the places (from 0) of the tiles that share with exactly two others
TwoSharing(pt) == {k - 1 : k \in {j \in 1..Len(pt) : Cardinality(Sharing(pt, j)) = 2}}

FirstTwoSharingSelected ==
    pc = "find_corner" =>
        /\ pc' = "build_grid" =>
              /\ corner' \in TwoSharing(parsed_tiles)
              /\ \A k \in TwoSharing(parsed_tiles) : corner' <= k
        /\ TwoSharing(parsed_tiles) = {} =>
              /\ outcome' = "Could not find suitable top-left corner"
              /\ pc' = "done"

\* C24: the corner selected is the first tile in input order that shares a
\* fingerprint with exactly two other tiles, never one that shares with 0,
\* 1 or 3 and more; when no tile shares with exactly two, Grid::parse fails
\* with 'Could not find suitable top-left corner'
CornerIsFirstWithTwo == [][FirstTwoSharingSelected]_vars

\* a corner selected after tiles with three and four neighbours were passed
LaterCornerSelected ==
    /\ pc = "build_grid"
    /\ corner >= 2
    /\ Len(parsed_tiles) = 9


\* the fingerprints the tile at place k of pt shares with the one at place m
SharedWith(pt, k, m) ==
    Values(Fingerprints(pt[k])) \cap Values(Fingerprints(pt[m]))

\* the first and the second neighbour, in input order, of the tile at place k
FirstNeighbour(pt, k) == CHOOSE m \in Sharing(pt, k) : \A j \in Sharing(pt, k) : m <= j

SecondNeighbour(pt, k) == CHOOSE m \in Sharing(pt, k) : \A j \in Sharing(pt, k) : m >= j

\* constraints that put a fingerprint of neighbour m of tile k to the right
\* and one of neighbour j to the bottom
Assigns(c, pt, k, m, j) ==
    /\ IsSome(c.right) /\ Unwrap(c.right) \in SharedWith(pt, k, m)
    /\ IsSome(c.bottom) /\ Unwrap(c.bottom) \in SharedWith(pt, k, j)
    /\ c.left = None
    /\ c.top = None

\* find_corner has given up on a tile that shares with exactly two others
CornerGivenUp ==
    /\ pc = "done"
    /\ outcome = "Could not find suitable top-left corner"
    /\ TwoSharing(parsed_tiles) # {}

\* the place, from 1, of the tile find_corner tried to orient
Candidate == 1 + CHOOSE k \in TwoSharing(parsed_tiles) : \A j \in TwoSharing(parsed_tiles) : k <= j

\* C25 as stated: the corner is tried with both assignments of its two
\* neighbours to (right, bottom), (first, second) and (second, first), before
\* find_corner gives up
BothAssignmentsTried ==
    CornerGivenUp =>
        LET k == Candidate
            m == FirstNeighbour(parsed_tiles, k)
            j == SecondNeighbour(parsed_tiles, k)
        IN  /\ \E p \in scanned : Assigns(p[2], parsed_tiles, k, m, j)
            /\ \E p \in scanned : Assigns(p[2], parsed_tiles, k, j, m)

\* the constraints of the last call of orient find_corner made
LastTried == (CHOOSE p \in scanned : p[1] = Cardinality(scanned) - 1)[2]

\* C25: find_corner calls orient with one assignment only, a fingerprint
\* shared with the first neighbour to the right and one shared with the
\* second to the bottom, pair after pair until a call holds; after success
\* the right edge of the corner is shared with the first neighbour and its
\* bottom edge with the second
FirstToRightSecondToBottom ==
    /\ (pc = "build_grid" \/ CornerGivenUp) =>
          LET k == IF pc = "build_grid" THEN corner + 1 ELSE Candidate
              m == FirstNeighbour(parsed_tiles, k)
              j == SecondNeighbour(parsed_tiles, k)
          IN  /\ scanned # {}
              /\ {p[1] : p \in scanned} = 0..(Cardinality(scanned) - 1)
              /\ \A p \in scanned : Assigns(p[2], parsed_tiles, k, m, j)
              /\ \A p \in scanned :
                    p[1] < Cardinality(scanned) - 1 =>
                        SatisfyingImages(parsed_tiles[k], p[2]) = {}
    /\ pc = "build_grid" =>
          /\ Satisfies(parsed_tiles[corner + 1], LastTried)
          /\ right_edge(parsed_tiles[corner + 1])
                \in SharedWith(parsed_tiles, corner + 1, FirstNeighbour(parsed_tiles, corner + 1))
          /\ bottom_edge(parsed_tiles[corner + 1])
                \in SharedWith(parsed_tiles, corner + 1, SecondNeighbour(parsed_tiles, corner + 1))
    /\ CornerGivenUp =>
          SatisfyingImages(parsed_tiles[Candidate], LastTried) = {}

\* a corner oriented at the second pair or later, its bottom edge not shared
\* with the first neighbour
CornerOrientedLate ==
    /\ pc = "build_grid"
    /\ Cardinality(scanned) >= 2
    /\ bottom_edge(parsed_tiles[corner + 1])
          \notin SharedWith(parsed_tiles, corner + 1, FirstNeighbour(parsed_tiles, corner + 1))


\* every set cell of t is a set cell of u, a tile of the same side
ClearedFrom(t, u) ==
    /\ t.size = u.size
    /\ Len(t.data) = Len(u.data)
    /\ \A i \in 1..Len(t.data) : t.data[i] => u.data[i]

\* a window tested in the orientation just scanned, matching as the scan
\* found the tile
MatchedInScan == \E w \in scanned' : HasMonster(tile, w[1], w[2])

\* one iteration of the loop: the tile is the step-th image of the tile the
\* call was given; a match ends the loop in this orientation, no match takes
\* the tile to the next orientation with no cell cleared
OneOrientationExamined ==
    (pc = "remove_monsters" /\ pc' # "aborted") =>
        /\ tile = DihedralImage(before, step)
        /\ IF MatchedInScan
           THEN /\ pc' = "monsters_removed"
                /\ step' = step
                /\ ClearedFrom(tile', tile)
                /\ tile' # tile
           ELSE /\ step' = step + 1
                /\ tile' = DihedralImage(before, IF step = 7 THEN 4 ELSE step + 1)

\* once the loop has ended on a match the tile stays in the orientation of
\* the match
StaysInMatchedOrientation ==
    (pc \in {"monsters_removed", "finished"} /\ step < 8) =>
        /\ ClearedFrom(tile, DihedralImage(before, step))
        /\ tile # DihedralImage(before, step)

\* C26: remove_monsters examines the orientations in the order of 4 quarter
\* turns, the mirror image and its 4 quarter turns, and stops at the first
\* one where a window matched: the tile is left in that orientation and
\* cells are cleared in no other
StopsAtFirstMatchedOrientation ==
    [](StaysInMatchedOrientation) /\ [][OneOrientationExamined]_vars

\* the loop ended on a match found past the mirror image
MatchedAfterFlip ==
    /\ pc = "monsters_removed"
    /\ step = 6
    /\ tile # DihedralImage(before, step)


\* the puzzles cut so that only tiles next to each other share a border
WellPosedPuzzles == {1, 2}

\* the grid of a whole well-posed puzzle has just been assembled
WellPosedAssembled ==
    /\ pc = "corner_ids"
    /\ input.kind = "grid"
    /\ input.drop = 0
    /\ input.swap = 0
    /\ input.pz \in WellPosedPuzzles
    /\ outcome = "Ok"
    /\ Len(tiles) = size * size

\* the number of grid neighbours of position k (from 1)
GridDegree(k) == Cardinality({m \in 1..Len(tiles) : GridAdjacent(k, m)})

\* C27: for a well-posed puzzle a.connect(b) is non-empty exactly when a and
\* b are next to each other in the assembled image; corner tiles connect to
\* exactly 2 other tiles, edge tiles to 3, interior tiles to 4
ConnectIffAdjacent ==
    WellPosedAssembled =>
        /\ \A k, m \in 1..Len(tiles) :
              k # m => ((connect(tiles[k], tiles[m]) # << >>) <=> GridAdjacent(k, m))
        /\ \A k \in 1..Len(tiles) :
              /\ Cardinality(Neighbours(k)) = GridDegree(k)
              /\ k \in {CornerPositions[j] : j \in 1..4} => Cardinality(Neighbours(k)) = 2
              /\ k = 5 /\ size = 3 => Cardinality(Neighbours(k)) = 4
              /\ k \in {2, 4, 6, 8} /\ size = 3 => Cardinality(Neighbours(k)) = 3

\* a 3 by 3 grid assembled: its middle tile connects to 4 tiles, the tile
\* above it to 3, the first tile to 2
MiddleConnectsToFour ==
    /\ WellPosedAssembled
    /\ size = 3
    /\ Cardinality(Neighbours(5)) = 4
    /\ Cardinality(Neighbours(2)) = 3
    /\ Cardinality(Neighbours(1)) = 2


\* one iteration of the fill loop: one tile leaves the pool and is pushed
\* on the placed tiles, or the error is returned
FillMovesOneOrFails ==
    (pc = "fill" /\ parsed_tiles # << >>) =>
        \/ /\ pc' = "fill"
           /\ Len(parsed_tiles') = Len(parsed_tiles) - 1
           /\ Len(tiles') = Len(tiles) + 1
           /\ SubSeq(tiles', 1, Len(tiles)) = tiles
           /\ {parsed_tiles[k].id : k \in 1..Len(parsed_tiles)}
                 = {parsed_tiles'[k].id : k \in 1..Len(parsed_tiles')}
                   \cup {tiles'[Len(tiles')].id}
        \/ /\ pc' = "done"
           /\ outcome' = "Ambiguous grid edge constraints"

\* the iterations done, one for each tile placed after the corner, and the
\* tiles left in the pool are the n - 1 tiles the loop started with
FillWithinBudget ==
    pc = "fill" =>
        /\ Len(tiles) >= 1
        /\ (Len(tiles) - 1) + Len(parsed_tiles) = size * size - 1

OkLeavesPoolEmpty == (input.kind # "sqrt" /\ outcome = "Ok") => parsed_tiles = << >>

\* C28: the fill loop of build_grid always terminates: every iteration moves
\* exactly one tile from the pool to the placed tiles or returns the error,
\* so the n tiles handed to build_grid take at most n - 1 iterations, and
\* the pool is empty when Ok is returned
FillLoopTerminates ==
    /\ (pc = "fill") ~> (pc \in {"corner_ids", "done"})
    /\ [][FillMovesOneOrFails]_vars
    /\ [](FillWithinBudget /\ OkLeavesPoolEmpty)

\* the tile of the call in its k-th orientation, counted from the tile as
\* Tile::parse returned it (a tile rotate_right can turn)
StartingFrom(k) == Turned(ParsedTile(input), 0, k)

\* the orientations that satisfy the constraints of the call
SatisfyingStarts == {k \in 0..7 : Satisfies(StartingFrom(k), OrientConstraints(input))}

\* C29: for a tile accepted by Tile::parse and constraints with at least one
\* field set, at most one of the 8 orientations satisfies the constraints;
\* so what orient returns and, on success, the data it leaves are the same
\* whichever orientation the tile was in before the call
OrientIgnoresStart ==
    (pc = "oriented" /\ input.kind = "parsed" /\ ~RotatePanics(ParsedTile(input))) =>
        /\ Cardinality(SatisfyingStarts) <= 1
        /\ \A k \in 0..7 :
              LET r == orient(StartingFrom(k), OrientConstraints(input))
              IN  /\ r.ok = ret
                  /\ ret => r.tile = tile


\* the places in the data of t of the cells under a '#' of the pattern
\* drawn at window w
PatternCells(t, w) ==
    {(w[1] + rc[1] - 1) * t.size + w[2] + rc[2] :
        rc \in {p \in (1..MONSTER_HEIGHT) \X (1..MONSTER_WIDTH) : MONSTER_PATTERN[p[1]][p[2]]}}

\* the tile the call was given, in the orientation the loop ended in
AsLastScanned == DihedralImage(before, IF step = 8 THEN 4 ELSE step)

\* the call has returned; ret holds the matches of the last orientation
ScrubReturned == pc = "monsters_removed"

ClearsOnlyMatches ==
    ScrubReturned =>
        LET given   == AsLastScanned
            cleared == {i \in 1..Len(tile.data) : given.data[i] /\ ~tile.data[i]}
        IN  /\ ClearedFrom(tile, given)
            /\ cleared = UNION {PatternCells(tile, ret[k]) : k \in 1..Len(ret)}
            /\ \A k \in 1..Len(ret) : Cardinality(PatternCells(tile, ret[k])) = 15
            /\ Cardinality(cleared) = 15 * Len(ret)

\* roughness() after the call
RoughnessIsCountLessMatches ==
    ScrubReturned => (ret' = roughness(before) - 15 * Len(ret))

\* C30: remove_monsters only clears cells, and only under a '#' of a window
\* it recorded as a match; every recorded match clears exactly 15 cells that
\* were set, so the roughness after the call is the number of set cells
\* before it less 15 times the number of recorded matches
RoughnessLosesFifteenPerMatch ==
    [](ClearsOnlyMatches) /\ [][RoughnessIsCountLessMatches]_vars

\* two matches recorded in one orientation: 30 cells cleared
TwoMatchesRecorded ==
    /\ pc = "finished"
    /\ ret = roughness(before) - 30
    /\ ret > 0

====
